---------------------------- MODULE Spec2Model ----------------------------
(***************************************************************************)
(* Coverage-resolution orchestrator of coveredrx: medication normalizer,   *)
(* local formulary index, remote coverage resolver, web research augmenter *)
(* and CoverageService.checkCoverage, which sequences them.                *)
(*                                                                         *)
(* Conventions.  A JavaScript string is a sequence of one-character        *)
(* strings, so toLowerCase, trim and includes are computed.  Confidence    *)
(* is kept in hundredths (0.3 is 30).  A number that may be null or        *)
(* missing is an integer with NULL and UNDEF below zero; a boolean that    *)
(* may be null or missing is one of "true", "false", "null", "undefined".  *)
(* An optional value is a sequence of length 0 (absent) or 1.              *)
(***************************************************************************)
EXTENDS Integers, Sequences, FiniteSets, TLC

(***************************************************************************)
(* Strings of the model: drug names of the source and of the data files.   *)
(***************************************************************************)
Str ==
  [ s_lisinopril |-> <<"l","i","s","i","n","o","p","r","i","l">>,
    s_metformin |-> <<"m","e","t","f","o","r","m","i","n">>,
    s_atorvastatin |-> <<"a","t","o","r","v","a","s","t","a","t","i","n">>,
    s_omeprazole |-> <<"o","m","e","p","r","a","z","o","l","e">>,
    s_sertraline |-> <<"s","e","r","t","r","a","l","i","n","e">>,
    s_amlodipine |-> <<"a","m","l","o","d","i","p","i","n","e">>,
    s_humira |-> <<"h","u","m","i","r","a">>,
    s_adalimumab |-> <<"a","d","a","l","i","m","u","m","a","b">>,
    s_tylenol |-> <<"t","y","l","e","n","o","l">>,
    s_acetaminophen |-> <<"a","c","e","t","a","m","i","n","o","p","h","e","n">>,
    s_advil |-> <<"a","d","v","i","l">>,
    s_ibuprofen |-> <<"i","b","u","p","r","o","f","e","n">>,
    s_lipitor |-> <<"l","i","p","i","t","o","r">>,
    s_prinivil |-> <<"p","r","i","n","i","v","i","l">>,
    s_zestril |-> <<"z","e","s","t","r","i","l">>,
    s_synthroid |-> <<"s","y","n","t","h","r","o","i","d">>,
    s_levothyroxine |-> <<"l","e","v","o","t","h","y","r","o","x","i","n","e">>,
    s_glucophage |-> <<"g","l","u","c","o","p","h","a","g","e">>,
    s_prilosec |-> <<"p","r","i","l","o","s","e","c">>,
    s_zoloft |-> <<"z","o","l","o","f","t">>,
    s_norvasc |-> <<"n","o","r","v","a","s","c">>,
    S_Tylenol |-> <<"T","y","l","e","n","o","l">>,
    S_Prinivil |-> <<"P","r","i","n","i","v","i","l">>,
    S_Zestril |-> <<"Z","e","s","t","r","i","l">>,
    S_Humira |-> <<"H","u","m","i","r","a">>,
    s_xarelto |-> <<"x","a","r","e","l","t","o">>,
    s_rivaroxaban |-> <<"r","i","v","a","r","o","x","a","b","a","n">>,
    s_remicade |-> <<"r","e","m","i","c","a","d","e">>,
    S_Remicade |-> <<"R","e","m","i","c","a","d","e">>,
    s_infliximab |-> <<"i","n","f","l","i","x","i","m","a","b">>,
    s_aspirin |-> <<"a","s","p","i","r","i","n">>,
    s_enalapril |-> <<"e","n","a","l","a","p","r","i","l">>,
    s_captopril |-> <<"c","a","p","t","o","p","r","i","l">>,
    s_losartan |-> <<"l","o","s","a","r","t","a","n">>,
    s_enbrel |-> <<"e","n","b","r","e","l">>,
    s_eliquis |-> <<"e","l","i","q","u","i","s">>,
    s_pradaxa |-> <<"p","r","a","d","a","x","a">>,
    S_Lisinopril |-> <<"L","i","s","i","n","o","p","r","i","l">>,
    S_Adalimumab |-> <<"A","d","a","l","i","m","u","m","a","b">>,
    S_Acetaminophen |-> <<"A","c","e","t","a","m","i","n","o","p","h","e","n">>,
    S_INVALID_MEDICATION |-> <<"I","N","V","A","L","I","D","_","M","E","D","I","C","A","T","I","O","N">>,
    S_Zorvex |-> <<"Z","o","r","v","e","x">>,
    s_xk29qzrandom |-> <<"x","k","2","9","q","z","r","a","n","d","o","m">>,
    S_Unknown |-> <<"U","n","k","n","o","w","n">>,
    s_empty |-> <<>>,
    S_Synthroid |-> <<"S","y","n","t","h","r","o","i","d">>,
    S_Levoxyl |-> <<"L","e","v","o","x","y","l">>,
    S_Lipitor |-> <<"L","i","p","i","t","o","r">>,
    s_simvastatin |-> <<"s","i","m","v","a","s","t","a","t","i","n">>,
    s_rosuvastatin |-> <<"r","o","s","u","v","a","s","t","a","t","i","n">>,
    s_liothyronine |-> <<"l","i","o","t","h","y","r","o","n","i","n","e">>,
    s_constructor |-> <<"c","o","n","s","t","r","u","c","t","o","r">>,
    S_Metformin_ER |-> <<"M","e","t","f","o","r","m","i","n"," ","E","R">>,
    s_lisin |-> <<"l","i","s","i","n">> ]

Lowercase == <<"a","b","c","d","e","f","g","h","i","j","k","l","m","n","o","p","q","r","s","t","u","v","w","x","y","z">>
Uppercase == <<"A","B","C","D","E","F","G","H","I","J","K","L","M","N","O","P","Q","R","S","T","U","V","W","X","Y","Z">>

\* String.prototype.toLowerCase, one character
lowerChar(c) ==
  IF \E i \in 1..Len(Uppercase) : Uppercase[i] = c
  THEN Lowercase[CHOOSE i \in 1..Len(Uppercase) : Uppercase[i] = c]
  ELSE c

\* String.prototype.toLowerCase
toLowerCase(s) == [i \in 1..Len(s) |-> lowerChar(s[i])]

\* String.prototype.trim (blanks only)
RECURSIVE trimLeft(_)
trimLeft(s) == IF Len(s) > 0 /\ Head(s) = " " THEN trimLeft(Tail(s)) ELSE s
RECURSIVE trimRight(_)
trimRight(s) ==
  IF Len(s) > 0 /\ s[Len(s)] = " " THEN trimRight(SubSeq(s, 1, Len(s) - 1)) ELSE s
trim(s) == trimRight(trimLeft(s))

\* String.prototype.includes: sub occurs in s as a contiguous substring
includes(s, sub) ==
  \E i \in 0..(Len(s) - Len(sub)) :
     \A j \in 1..Len(sub) : s[i + j] = sub[j]

\* Array.prototype.some over a sequence
SeqToSet(q) == {q[i] : i \in 1..Len(q)}

(***************************************************************************)
(* JavaScript values                                                       *)
(***************************************************************************)
NULL == -1
UNDEF == -2
\* truthiness of a number (0, null and undefined are falsy)
TruthyNum(n) == n > 0
\* truthiness of a boolean-or-null-or-undefined
TruthyBool(b) == b = "true"
None == <<>>
Some(v) == <<v>>

(***************************************************************************)
(* Formulary Index: FormularyService                                       *)
(***************************************************************************)
\* FormularyEntry, the fields the services read
Entry(g, b, t, c, pa, ql, st, alts) ==
  [generic_name |-> g, brand_names |-> b, tier |-> t, copay |-> c,
   prior_auth |-> pa, quantity_limits |-> ql, step_therapy |-> st,
   alternatives |-> alts]

\* data/formularies/aetna-choice-pos.json, entries in file order (a subset)
AetnaChoicePos ==
  [plan_id |-> "aetna-choice-pos", carrier |-> "Aetna",
   formulary |-> <<
     [key |-> Str.s_acetaminophen,
      entry |-> Entry(Str.s_acetaminophen, <<Str.S_Tylenol>>, 1, 10, FALSE, FALSE, FALSE,
                      <<Str.s_ibuprofen, Str.s_aspirin>>)],
     [key |-> Str.s_lisinopril,
      entry |-> Entry(Str.s_lisinopril, <<Str.S_Prinivil, Str.S_Zestril>>, 1, 10, FALSE, FALSE, FALSE,
                      <<Str.s_enalapril, Str.s_captopril, Str.s_losartan>>)],
     [key |-> Str.s_atorvastatin,
      entry |-> Entry(Str.s_atorvastatin, <<Str.S_Lipitor>>, 1, 10, FALSE, FALSE, FALSE,
                      <<Str.s_simvastatin, Str.s_rosuvastatin>>)],
     [key |-> Str.s_levothyroxine,
      entry |-> Entry(Str.s_levothyroxine, <<Str.S_Synthroid, Str.S_Levoxyl>>, 2, 30, FALSE, FALSE, FALSE,
                      <<Str.s_liothyronine>>)],
     [key |-> Str.s_humira,
      entry |-> Entry(Str.s_adalimumab, <<Str.S_Humira>>, 4, 100, TRUE, TRUE, TRUE,
                      <<Str.s_enbrel, Str.s_remicade>>)],
     [key |-> Str.s_xarelto,
      entry |-> Entry(Str.s_rivaroxaban, <<Str.s_empty>>, 3, 60, TRUE, FALSE, TRUE,
                      <<Str.s_eliquis, Str.s_pradaxa>>)] >>]

\* data/formularies/unitedhealth-hmo.json, entries in file order (a subset)
UnitedHealthHmo ==
  [plan_id |-> "unitedhealth-hmo", carrier |-> "UnitedHealthcare",
   formulary |-> <<
     [key |-> Str.s_acetaminophen,
      entry |-> Entry(Str.s_acetaminophen, <<Str.S_Tylenol>>, 1, 8, FALSE, FALSE, FALSE,
                      <<Str.s_ibuprofen, Str.s_aspirin>>)],
     [key |-> Str.s_lisinopril,
      entry |-> Entry(Str.s_lisinopril, <<Str.S_Prinivil, Str.S_Zestril>>, 1, 8, FALSE, FALSE, FALSE,
                      <<Str.s_enalapril, Str.s_captopril>>)],
     [key |-> Str.s_levothyroxine,
      entry |-> Entry(Str.s_levothyroxine, <<Str.S_Synthroid, Str.S_Levoxyl>>, 1, 8, FALSE, FALSE, FALSE,
                      <<Str.s_liothyronine>>)],
     [key |-> Str.s_remicade,
      entry |-> Entry(Str.s_infliximab, <<Str.S_Remicade>>, 4, 75, TRUE, TRUE, TRUE,
                      <<Str.s_humira, Str.s_enbrel>>)] >>]

\* FormularyService.loadFormularies: the map after a successful load, and
\* after readdirSync threw (the catch leaves the map empty)
LoadedFormularies == <<AetnaChoicePos, UnitedHealthHmo>>
EmptyFormularies == <<>>

\* Map.get(planId): the plans stored under planId (none or one)
PlansFor(fs, planId) == {i \in 1..Len(fs) : fs[i].plan_id = planId}

\* this.formularies after checkCoverage or getSuggestedAlternatives have
\* run for planId: both only read the map and the entries (Map.get,
\* Object.entries, comparisons; results refer to the entries, and no caller
\* writes through them)
\* (variant: the plan looked at is dropped from the map)
IndexAfterLookup_dropsPlan(fs, planId) == SelectSeq(fs, LAMBDA f : f.plan_id # planId)
IndexAfterLookup(fs, planId) == fs

\* the first of a set of indices, 0 if none (a for..of loop over
\* Object.entries that returns at the first hit)
FirstIndex(hits) ==
  IF hits = {} THEN 0 ELSE CHOOSE i \in hits : \A j \in hits : i <= j

\* commonMappings of FormularyService.checkCoverage
commonMappings ==
  << <<Str.s_tylenol, Str.s_acetaminophen>>, <<Str.s_advil, Str.s_ibuprofen>>,
     <<Str.s_humira, Str.s_adalimumab>>, <<Str.s_lipitor, Str.s_atorvastatin>>,
     <<Str.s_prinivil, Str.s_lisinopril>>, <<Str.s_zestril, Str.s_lisinopril>>,
     <<Str.s_synthroid, Str.s_levothyroxine>>, <<Str.s_glucophage, Str.s_metformin>>,
     <<Str.s_prilosec, Str.s_omeprazole>>, <<Str.s_zoloft, Str.s_sertraline>>,
     <<Str.s_norvasc, Str.s_amlodipine>> >>

\* commonMappings is a plain object literal: a key inherited from
\* Object.prototype reads as a function, which is truthy and not a string
ObjectPrototypeKeys == {Str.s_constructor}

IsMapped(n) == \E i \in 1..Len(commonMappings) : commonMappings[i][1] = n
MappedName(n) ==
  commonMappings[CHOOSE i \in 1..Len(commonMappings) : commonMappings[i][1] = n][2]

NotFound == [isFound |-> FALSE, entry |-> None, matchedName |-> None, threw |-> FALSE]
Found(item) ==
  [isFound |-> TRUE, entry |-> Some(item.entry), matchedName |-> Some(item.key),
   threw |-> FALSE]
\* medicationName.toLowerCase is not a function: a TypeError leaves the call
LookupThrew == [isFound |-> FALSE, entry |-> None, matchedName |-> None, threw |-> TRUE]

ExactMatch(n, item) == toLowerCase(item.key) = n
\* (variant: the brand names are not compared)
GenericOrBrandMatch_genericOnly(n, item) ==
  item.entry.generic_name # Str.s_empty /\ toLowerCase(item.entry.generic_name) = n
\* (variant: the brand names are compared without lower-casing them)
GenericOrBrandMatch_brandCaseSensitive(n, item) ==
  \/ (item.entry.generic_name # Str.s_empty /\ toLowerCase(item.entry.generic_name) = n)
  \/ \E b \in SeqToSet(item.entry.brand_names) : b = n
GenericOrBrandMatch(n, item) ==
  \/ (item.entry.generic_name # Str.s_empty /\ toLowerCase(item.entry.generic_name) = n)
  \/ \E b \in SeqToSet(item.entry.brand_names) : toLowerCase(b) = n
PartialMatch(n, item) ==
  \/ includes(toLowerCase(item.key), n)
  \/ includes(n, toLowerCase(item.key))
  \/ (item.entry.generic_name # Str.s_empty /\ includes(toLowerCase(item.entry.generic_name), n))

\* FormularyService.checkCoverage(planId, medicationName)
RECURSIVE FormularyCheckCoverage(_, _, _)
FormularyCheckCoverage(fs, planId, medicationName) ==
  IF PlansFor(fs, planId) = {} THEN NotFound
  ELSE
    LET f == fs[CHOOSE i \in PlansFor(fs, planId) : TRUE].formulary
        n == trim(toLowerCase(medicationName))
        exact == FirstIndex({i \in 1..Len(f) : ExactMatch(n, f[i])})
        byName == FirstIndex({i \in 1..Len(f) : GenericOrBrandMatch(n, f[i])})
        partial == FirstIndex({i \in 1..Len(f) : PartialMatch(n, f[i])})
    IN  IF exact # 0 THEN Found(f[exact])
        ELSE IF byName # 0 THEN Found(f[byName])
        ELSE IF n \in ObjectPrototypeKeys THEN LookupThrew
        ELSE IF IsMapped(n) THEN FormularyCheckCoverage(fs, planId, MappedName(n))
        ELSE IF partial # 0 THEN Found(f[partial])
        ELSE NotFound

\* the listed alternatives that checkCoverage finds in the plan, in order
RECURSIVE ListedAlternatives(_, _, _)
ListedAlternatives(fs, planId, names) ==
  IF names = <<>> THEN <<>>
  ELSE LET altResult == FormularyCheckCoverage(fs, planId, Head(names))
       IN (IF altResult.isFound THEN <<altResult.entry[1]>> ELSE <<>>)
            \o ListedAlternatives(fs, planId, Tail(names))

\* the test of the lower-tier loop
\* (variant: the loop does not stop at three)
LowerTierCandidate_noCap(entry, currentEntry, alternatives) ==
  entry.tier < currentEntry.tier /\ ~entry.prior_auth
LowerTierCandidate(entry, currentEntry, alternatives) ==
  entry.tier < currentEntry.tier /\ ~entry.prior_auth /\ Len(alternatives) < 3

RECURSIVE LowerTierAlternatives(_, _, _)
LowerTierAlternatives(f, currentEntry, alternatives) ==
  IF f = <<>> THEN alternatives
  ELSE LowerTierAlternatives(Tail(f), currentEntry,
         IF LowerTierCandidate(Head(f).entry, currentEntry, alternatives)
         THEN Append(alternatives, Head(f).entry)
         ELSE alternatives)

\* FormularyService.getSuggestedAlternatives(planId, medicationName,
\* currentEntry): currentEntry is optional, medicationName is not read
getSuggestedAlternatives(fs, planId, currentEntry) ==
  IF PlansFor(fs, planId) = {} THEN [threw |-> FALSE, alternatives |-> <<>>]
  ELSE IF currentEntry = None THEN [threw |-> FALSE, alternatives |-> <<>>]
  ELSE
    LET f == fs[CHOOSE i \in PlansFor(fs, planId) : TRUE].formulary
        names == currentEntry[1].alternatives
        listed == ListedAlternatives(fs, planId, names)
    IN  IF \E i \in 1..Len(names) : FormularyCheckCoverage(fs, planId, names[i]).threw
        THEN [threw |-> TRUE, alternatives |-> <<>>]
        ELSE IF Len(listed) = 0
        THEN [threw |-> FALSE,
              alternatives |-> LowerTierAlternatives(f, currentEntry[1], <<>>)]
        ELSE [threw |-> FALSE, alternatives |-> listed]

(***************************************************************************)
(* Medication Normalizer: GroqService.normalizeMedication                  *)
(***************************************************************************)
\* What the text-generation backend did with one call:
\*   transport_error  groq.chat.completions.create rejected
\*   empty            no message content
\*   unparseable      JSON.parse failed and no "name" field could be extracted
\*   json_null        JSON.parse gave the value null (reading its name throws)
\*   partial          JSON.parse failed, the regex extracted data.name
\*   json             JSON.parse gave data: name, genericName and brandName are
\*                    optional strings, confidence a number or UNDEF
MedData(n, g, b, c) == [name |-> n, genericName |-> g, brandName |-> b, confidence |-> c]

\* the confidences (hundredths) a reply may report
ReplyConfidences == {UNDEF, 0, 10, 25, 90, 95}

\* the records a reply may describe
ReplyRecords ==
  { <<Some(Str.S_Lisinopril), Some(Str.s_lisinopril), None>>,
    <<Some(Str.S_Adalimumab), Some(Str.s_adalimumab), Some(Str.S_Humira)>>,
    <<Some(Str.S_Acetaminophen), None, Some(Str.S_Tylenol)>>,
    <<Some(Str.S_Zorvex), None, None>>,
    <<Some(Str.s_constructor), Some(Str.s_lisinopril), None>>,
    <<Some(Str.S_INVALID_MEDICATION), None, None>>,
    <<None, None, None>> }

BackendReplies ==
  { [kind |-> "transport_error", data |-> MedData(None, None, None, UNDEF)],
    [kind |-> "empty", data |-> MedData(None, None, None, UNDEF)],
    [kind |-> "unparseable", data |-> MedData(None, None, None, UNDEF)],
    [kind |-> "json_null", data |-> MedData(None, None, None, UNDEF)],
    [kind |-> "partial", data |-> MedData(Some(Str.S_Lisinopril), None, None, UNDEF)],
    [kind |-> "partial", data |-> MedData(Some(Str.S_INVALID_MEDICATION), None, None, UNDEF)] }
  \cup { [kind |-> "json", data |-> MedData(r[1], r[2], r[3], c)] :
           r \in ReplyRecords, c \in ReplyConfidences }

\* commonMeds of the catch block
commonMeds == <<Str.s_lisinopril, Str.s_metformin, Str.s_atorvastatin, Str.s_omeprazole, Str.s_sertraline>>

Medication(n, g, b) == [name |-> n, genericName |-> g, brandName |-> b]

\* (variant: the catch block rethrows)
NormalizeFallback_rethrows(userInput) ==
  [medication |-> Medication(Str.s_empty, Str.s_empty, None), confidence |-> UNDEF, via |-> "threw"]
\* (variant: the well-known names are compared case-sensitively)
NormalizeFallback_caseSensitive(userInput) ==
  [medication |-> Medication(userInput, toLowerCase(userInput), None),
   confidence |-> IF \E med \in SeqToSet(commonMeds) : includes(userInput, med)
                  THEN 70 ELSE 20,
   via |-> "fallback"]
\* the catch block: echo the input, 0.7 for a well-known generic name, else 0.2
NormalizeFallback(userInput) ==
  [medication |-> Medication(userInput, toLowerCase(userInput), None),
   confidence |-> IF \E med \in SeqToSet(commonMeds) : includes(toLowerCase(userInput), med)
                  THEN 70 ELSE 20,
   via |-> "fallback"]

\* (variant: the invalid-medication return is the catch block's record)
NormalizeInvalid_asFallback(userInput) == NormalizeFallback(userInput)
\* the 'Groq identified invalid medication' return
NormalizeInvalid(userInput) ==
  [medication |-> Medication(userInput, userInput, None),
   confidence |-> 10,
   via |-> "invalid"]

Max(a, b) == IF a >= b THEN a ELSE b

\* medicationData.confidence || 0.8
ConfidenceOrDefault(c) == IF TruthyNum(c) THEN c ELSE 80

\* (variant: no minimum)
ClampConfidence_noClamp(c) == ConfidenceOrDefault(c)
\* (variant: the minimum is 0.25, below the orchestrator's gate)
ClampConfidence_lowFloor(c) == Max(ConfidenceOrDefault(c), 25)
\* Math.max(medicationData.confidence || 0.8, 0.5)
ClampConfidence(c) == Max(ConfidenceOrDefault(c), 50)

\* (variant: the regex fallback synthesizes confidence 0.5)
ParsedData_lowConfidence(reply) ==
  IF reply.kind = "partial"
  THEN MedData(reply.data.name, Some(toLowerCase(reply.data.name[1])), None, 50)
  ELSE reply.data
\* the data the parse step leaves in medicationData; the regex fallback
\* synthesizes a record with confidence 0.8
ParsedData(reply) ==
  IF reply.kind = "partial"
  THEN MedData(reply.data.name, Some(toLowerCase(reply.data.name[1])), None, 80)
  ELSE reply.data

\* GroqService.normalizeMedication(userInput) when the backend answers reply
normalizeMedication(userInput, reply) ==
  IF reply.kind \in {"transport_error", "empty", "unparseable", "json_null"}
  THEN NormalizeFallback(userInput)
  ELSE
    LET d == ParsedData(reply) IN
    IF \/ d.name = Some(Str.S_INVALID_MEDICATION)
       \/ (d.confidence # UNDEF /\ d.confidence < 20)
    THEN NormalizeInvalid(userInput)
    ELSE IF d.name = None THEN NormalizeFallback(userInput)
    ELSE [medication |-> Medication(d.name[1],
                                   IF d.genericName # None THEN d.genericName[1] ELSE d.name[1],
                                   d.brandName),
          confidence |-> ClampConfidence(d.confidence),
          via |-> "parsed"]

(***************************************************************************)
(* Remote Coverage Resolver: ToolhouseService.checkCoverage                *)
(***************************************************************************)
\* a suggested_alternatives value: null, an array (possibly empty), or a
\* JSON value that is not an array but has a positive length (a string)
NoAlternatives == [kind |-> "null", items |-> <<>>]
AlternativesList(items) == [kind |-> "array", items |-> items]
MalformedAlternatives == [kind |-> "string", items |-> <<>>]

Alternative(n, t, c, pa, why) ==
  [name |-> n, tier |-> t, copay |-> c, prior_auth |-> pa, reason |-> why]

\* ToolhouseCoverageResponse, the fields the orchestrator reads.  json is
\* "object" for a JSON object and "null" for the JSON value null.
Coverage(ic, t, c, pa, pad, sa, ex, ds) ==
  [json |-> "object", is_covered |-> ic, tier |-> t, copay |-> c,
   prior_auth_required |-> pa, prior_auth_details |-> pad,
   suggested_alternatives |-> sa, explanation |-> ex, data_source |-> ds]

JsonNull ==
  [json |-> "null", is_covered |-> "undefined", tier |-> UNDEF, copay |-> UNDEF,
   prior_auth_required |-> "undefined", prior_auth_details |-> None,
   suggested_alternatives |-> NoAlternatives, explanation |-> <<"undefined">>,
   data_source |-> "undefined"]

\* the catch block's fallback response
ToolhouseTimeout ==
  [json |-> "object", is_covered |-> "false", tier |-> NULL, copay |-> NULL,
   prior_auth_required |-> "false", prior_auth_details |-> None,
   quantity_limits |-> "false", step_therapy_required |-> "false",
   suggested_alternatives |-> NoAlternatives,
   explanation |-> <<"Toolhouse timeout - using local formulary data">>,
   data_source |-> "toolhouse_timeout"]

\* copays (dollars) an agent reply may carry
RemoteCopays == {NULL, 0, 60, 150}
RemoteTiers == {NULL, UNDEF, 2}

RemoteAlternativeItems ==
  <<Alternative(Str.s_losartan, 1, 10, "false", <<"agent reason">>)>>

\* the JSON values the agent's reply may parse to
RemoteValues ==
  { Coverage(ic, t, c, pa, IF pa = "true" THEN Some(<<"agent criteria">>) ELSE None,
             NoAlternatives, <<"agent explanation">>, "toolhouse_rag") :
      ic \in {"true", "false", "null", "undefined"}, t \in RemoteTiers,
      c \in RemoteCopays, pa \in {"true", "false"} }
  \cup
  { Coverage(ic, 2, 60, "false", None, sa, <<"agent explanation">>, "toolhouse_rag") :
      ic \in {"true", "false"},
      sa \in {AlternativesList(<<>>), AlternativesList(RemoteAlternativeItems),
              MalformedAlternatives} }
  \cup
  { Coverage("true", 2, 60, "false", None, NoAlternatives, <<"agent explanation">>,
             "toolhouse_timeout"),
    Coverage("true", 2, 60, "undefined", None, NoAlternatives, <<"agent explanation">>,
             "toolhouse_rag"),
    JsonNull }

\* What one call of the resolver met:
\*   abort, network_error   fetch rejected (the timer fired, or the transport failed)
\*   http_error             response.ok is false
\*   plain_text             the body holds neither a brace nor a json fence
\*   bad_json               no parse attempt succeeded
\*   value                  a parse attempt returned v
RemoteOutcomes ==
  { [kind |-> k, v |-> JsonNull] :
      k \in {"abort", "network_error", "http_error", "plain_text", "bad_json"} }
  \cup { [kind |-> "value", v |-> v] : v \in RemoteValues }

\* ToolhouseService.checkCoverage(request) when the call meets outcome o
\* (variant: response.ok is not tested, the body of an error page is parsed)
ToolhouseCheckCoverage_ignoresStatus(o) ==
  IF o.kind \in {"value", "http_error"} THEN o.v ELSE ToolhouseTimeout
ToolhouseCheckCoverage(o) ==
  IF o.kind = "value" THEN o.v ELSE ToolhouseTimeout

\* this.timeout, in seconds
timeout == 5

\* A reply text is a sequence of tokens: "{" and "}", "k" for the members of
\* an object, "null", "x" for prose, and "~~~json" and "~~~" for the opening
\* and closing marks of a code fence (three backquotes).
ReplyTexts ==
  { <<"{", "k", "}">>,
    <<"x", "~~~json", "{", "k", "}", "~~~", "x">>,
    <<"x", "{", "k", "}", "x">>,
    <<"x">>,
    <<"null">>,
    <<"{", "}">>,
    <<"~~~json", "{", "}", "~~~">>,
    <<"~~~json", "null", "~~~">>,
    <<"~~~json", "~~~">>,
    <<"{", "k">>,
    <<"{", "k", "}", "x", "{", "k", "}">>,
    <<"{", "x", "}", "~~~json", "{", "k", "}", "~~~">> }

\* the object that the text { k } stands for, and the object {}
ReplyObject ==
  Coverage("true", 2, 60, "false", None, NoAlternatives, <<"agent explanation">>,
           "toolhouse_rag")
EmptyObject ==
  Coverage("undefined", UNDEF, UNDEF, "undefined", None, NoAlternatives, <<"undefined">>,
           "undefined")

\* JSON.parse(text): the value, or threw
JsonParse(text) ==
  IF text = <<"{", "k", "}">> THEN [threw |-> FALSE, v |-> ReplyObject]
  ELSE IF text = <<"{", "}">> THEN [threw |-> FALSE, v |-> EmptyObject]
  ELSE IF text = <<"null">> THEN [threw |-> FALSE, v |-> JsonNull]
  ELSE [threw |-> TRUE, v |-> JsonNull]

Positions(text, tok) == {i \in 1..Len(text) : text[i] = tok}
NoMatch == [matched |-> FALSE, whole |-> <<>>, group |-> <<>>]

\* responseText.match of the fence expression (line 100): from the first
\* opening mark to the nearest closing mark, the group being what lies between
FenceMatch(text) ==
  LET opens == Positions(text, "~~~json")
      open == FirstIndex(opens)
      closes == {j \in Positions(text, "~~~") : j > open}
  IN IF opens = {} \/ closes = {} THEN NoMatch
     ELSE [matched |-> TRUE,
           whole |-> SubSeq(text, open, FirstIndex(closes)),
           group |-> SubSeq(text, open + 1, FirstIndex(closes) - 1)]

\* responseText.match(/\{[\s\S]*\}/): from the first opening brace to the
\* last closing brace; the expression has no group
BraceMatch(text) ==
  LET opens == Positions(text, "{")
      open == FirstIndex(opens)
      closes == {j \in Positions(text, "}") : j > open}
  IN IF opens = {} \/ closes = {} THEN NoMatch
     ELSE [matched |-> TRUE,
           whole |-> SubSeq(text, open, CHOOSE j \in closes : \A k \in closes : k <= j),
           group |-> <<>>]

\* lines 86-118: what the parse of responseText comes to
ParseReply(text) ==
  IF Positions(text, "{") = {} /\ Positions(text, "~~~json") = {}
  THEN [kind |-> "plain_text", v |-> JsonNull]
  ELSE IF ~JsonParse(text).threw THEN [kind |-> "value", v |-> JsonParse(text).v]
  ELSE LET jsonMatch == IF FenceMatch(text).matched THEN FenceMatch(text)
                        ELSE BraceMatch(text)
           jsonString == IF jsonMatch.group # <<>> THEN jsonMatch.group ELSE jsonMatch.whole
       IN IF ~jsonMatch.matched THEN [kind |-> "bad_json", v |-> JsonNull]
          ELSE IF JsonParse(jsonString).threw THEN [kind |-> "bad_json", v |-> JsonNull]
          ELSE [kind |-> "value", v |-> JsonParse(jsonString).v]

(***************************************************************************)
(* Web Research Augmenter: the results an operation may return             *)
(***************************************************************************)
WebResearchResult(op, nAlt, nPrice) ==
  [operation |-> op, alternatives |-> nAlt, priceComparisons |-> nPrice]

\* an operation's failure result (empty collections) and a result with data
WebResearchResults(op) == {WebResearchResult(op, 0, 0), WebResearchResult(op, 2, 1)}

\* this.cacheTimeout, in hours
cacheTimeout == 1

Operations == {"findAlternatives", "findPriceComparison", "researchPAStrategies"}

\* the key under which an operation caches a drug: its prefix and the name
\* (variant: the price comparison uses the prefix of findAlternatives)
CachePrefix_shared(op) ==
  IF op = "researchPAStrategies" THEN "pa-" ELSE "goodrx-"
CachePrefix(op) ==
  IF op = "findAlternatives" THEN "goodrx-"
  ELSE IF op = "findPriceComparison" THEN "prices-"
  ELSE "pa-"
CacheKey(op, drugName) == <<CachePrefix(op), drugName>>

\* the members of the object a reply parses to that the operations read
ReplyData(alts, prices, pa, programs, summary, sources) ==
  [alternatives |-> alts, priceComparisons |-> prices, paStrategies |-> pa,
   patientPrograms |-> programs, summary |-> summary, sources |-> sources]
NoData == ReplyData(<<>>, <<>>, <<>>, <<>>, None, <<>>)

\* What the backend call of an operation meets:
\*   rejects       create() rejects (transport failure)
\*   no_content    the completion carries no message content
\*   unparseable   the content holds no JSON
\*   json_null     the content is the JSON text null
\*   object        the content parses to an object with the members of data
AugmenterReplies ==
  { [kind |-> k, data |-> NoData] :
      k \in {"rejects", "no_content", "unparseable", "json_null", "object"} }
  \cup
  { [kind |-> "object",
     data |-> ReplyData(<<"generic">>, <<"CVS">>, <<"appeal">>, <<"coupon">>,
                        Some("summary of the reply"), <<"goodrx.com">>)] }

\* WebResearchResult; query holds the operation's phrase and the drug name
ResearchResult(op, drugName, at, alts, prices, pa, programs, summary, sources) ==
  [query |-> <<op, drugName>>, timestamp |-> at, alternatives |-> alts,
   priceComparisons |-> prices, paStrategies |-> pa, patientPrograms |-> programs,
   summary |-> summary, sources |-> sources]

\* (variant: the failure result is cached like any other)
ResearchFailed_cached(op, drugName, at) ==
  [cached |-> TRUE,
   result |-> ResearchResult(op, drugName, at, <<>>, <<>>, <<>>, <<>>, "failed", <<>>)]
\* the outer catch of an operation: the reply is not cached
ResearchFailed(op, drugName, at) ==
  [cached |-> FALSE,
   result |-> ResearchResult(op, drugName, at, <<>>, <<>>, <<>>, <<>>, "failed", <<>>)]

\* parsedData after the inner try/catch of an operation
ParsedReply(op, reply) ==
  IF reply.kind = "object" THEN reply.data
  ELSE ReplyData(<<>>, <<>>, <<>>, <<>>, Some("format was unexpected"),
                 IF op = "findAlternatives" THEN <<"GoodRx">> ELSE <<>>)

SummaryOrDefault(summary) == IF summary # None THEN summary[1] ELSE "default summary"

\* what an operation returns for drugName when its backend call, made on a
\* cache miss, meets reply at time at, and whether it caches the result
Research(op, drugName, reply, at) ==
  IF \/ reply.kind \in {"rejects", "json_null"}
     \/ reply.kind = "no_content" /\ op # "researchPAStrategies"
  THEN ResearchFailed(op, drugName, at)
  ELSE
    LET parsedData == ParsedReply(op, reply)
    IN [cached |-> TRUE,
        result |->
          IF op = "findAlternatives"
          THEN ResearchResult(op, drugName, at, parsedData.alternatives,
                              parsedData.priceComparisons, <<>>, <<>>,
                              SummaryOrDefault(parsedData.summary), <<"GoodRx">>)
          ELSE IF op = "findPriceComparison"
          THEN ResearchResult(op, drugName, at, parsedData.alternatives,
                              parsedData.priceComparisons, <<>>,
                              parsedData.patientPrograms,
                              SummaryOrDefault(parsedData.summary), parsedData.sources)
          ELSE ResearchResult(op, drugName, at, parsedData.alternatives, <<>>,
                              parsedData.paStrategies, <<>>,
                              SummaryOrDefault(parsedData.summary), parsedData.sources)]

(***************************************************************************)
(* Coverage Orchestrator: CoverageService.checkCoverage                    *)
(***************************************************************************)
VARIABLES
  formularies,        \* FormularyService.formularies, set by the constructor
  pc,                 \* where the request's checkCoverage call stands
  request,            \* CoverageCheckRequest
  completion,         \* optional: what the normalizer's backend answered
  normalizedResult,   \* optional: the normalizer's result
  localPromise,       \* localPromise of checkCoverage
  ragPromise,         \* ragPromise of checkCoverage
  toolhouseResponse,  \* optional: the winning coverage result
  dataSource,         \* dataSource of checkCoverage
  webResearch,        \* optional: the augmenter's result
  calls,              \* calls made to the collaborators during the request
  response            \* optional: the CoverageResponse returned

\* the state of the services when they are called on their own
VARIABLES
  suggested,          \* optional: a getSuggestedAlternatives call and its result
  clock,              \* seconds since the resolver's startTime
  timeoutId,          \* the resolver's abort timer: none, armed, cleared, fired
  responseText,       \* optional: the body the resolver read
  outcome,            \* optional: what the resolver's call met
  cache,              \* WebResearchService.cache: entries of key, result, timestamp
  now,                \* Date.now() of the augmenter, in hours
  tasks,              \* the calls of augmenter operations, by caller
  events              \* how many calls have started or returned

\* the POST /coverage/check handler
VARIABLES
  body,               \* req.body
  res,                \* optional: the HTTP answer sent
  serviceCalls        \* how often the handler called coverageService.checkCoverage

augmenterVars == <<cache, now, tasks, events>>
routeVars == <<body, res, serviceCalls>>
serviceVars == <<suggested, clock, timeoutId, responseText, outcome, augmenterVars, routeVars>>

vars == <<formularies, pc, request, completion, normalizedResult, localPromise,
          ragPromise, toolhouseResponse, dataSource, webResearch, calls, response,
          serviceVars>>

\* the callers of the augmenter, and a caller that has not called
Callers == {"first", "second"}
NotCalled ==
  [state |-> "idle", op |-> "none", drugName |-> Str.s_empty, started |-> 0, startSeq |-> 0,
   finished |-> 0, finishSeq |-> 0, invoked |-> FALSE, met |-> "none", cached |-> FALSE,
   result |-> None]

\* A JSON value of the request body: of type "undefined" (the property is
\* missing), "string" or "number"; chars is the string, or String(number)
JsValue(type, chars) == [type |-> type, chars |-> chars]
\* /^\d{5}$/.test(v): the value is coerced to a string
FiveDigits(v) ==
  LET text == IF v.type = "undefined"
              THEN <<"u","n","d","e","f","i","n","e","d">> ELSE v.chars
  IN /\ Len(text) = 5
     /\ \A i \in 1..5 : text[i] \in {"0", "1", "2", "3", "4", "5", "6", "7", "8", "9"}
\* a body: medication and insurancePlan are missing or objects with one
\* field (name, id)
Body(medication, insurancePlan, patientZipCode, pharmacyZipCode) ==
  [medication |-> medication, insurancePlan |-> insurancePlan,
   patientZipCode |-> patientZipCode, pharmacyZipCode |-> pharmacyZipCode]

\* validateCoverageRequest(body): the fields of the errors, in order
validateCoverageRequest(b) ==
  LET \* the empty string, 0 and undefined are falsy
      Truthy(v) == CASE v.type = "undefined" -> FALSE
                     [] v.type = "string" -> v.chars # <<>>
                     [] OTHER -> v.chars # <<"0">>
  IN (IF ~Truthy(b.medication.field) \/ b.medication.field.type # "string"
      THEN <<"medication.name">> ELSE <<>>)
     \o (IF ~Truthy(b.insurancePlan.field) \/ b.insurancePlan.field.type # "string"
         THEN <<"insurancePlan.id">> ELSE <<>>)
     \o (IF ~Truthy(b.patientZipCode) \/ b.patientZipCode.type # "string"
         THEN <<"patientZipCode">> ELSE <<>>)
     \o (IF Truthy(b.patientZipCode) /\ ~FiveDigits(b.patientZipCode)
         THEN <<"patientZipCode">> ELSE <<>>)
     \o (IF Truthy(b.pharmacyZipCode) /\ ~FiveDigits(b.pharmacyZipCode)
         THEN <<"pharmacyZipCode">> ELSE <<>>)

\* no service has been called on its own
ServiceInit ==
  /\ suggested = None
  /\ clock = 0
  /\ timeoutId = "none"
  /\ responseText = None
  /\ outcome = None
  /\ cache = {}
  /\ now = 0
  /\ tasks = [t \in Callers |-> NotCalled]
  /\ events = 0
  /\ body = Body([present |-> FALSE, field |-> JsValue("undefined", <<>>)],
                 [present |-> FALSE, field |-> JsValue("undefined", <<>>)],
                 JsValue("undefined", <<>>), JsValue("undefined", <<>>))
  /\ res = None
  /\ serviceCalls = 0

\* request inputs
MedicationNames == {Str.s_lisinopril, Str.s_xk29qzrandom}
PlanIds == {"aetna-choice-pos", "unitedhealth-hmo", "unknown-plan"}

NoRequest == [medicationName |-> Str.s_empty, planId |-> "", includeWebResearch |-> FALSE]
NoPromise == [status |-> "none", value |-> None]
Pending == [status |-> "pending", value |-> None]
Fulfilled(v) == [status |-> "fulfilled", value |-> Some(v)]
Rejected == [status |-> "rejected", value |-> None]
NoCalls == [normalizer |-> 0, local |-> 0, remote |-> 0, augmenter |-> <<>>]

\* commonDrugs of checkCoverage
commonDrugs ==
  <<Str.s_lisinopril, Str.s_metformin, Str.s_atorvastatin, Str.s_omeprazole, Str.s_sertraline,
    Str.s_amlodipine, Str.s_humira, Str.s_adalimumab>>

isCommonDrug(m) ==
  \E drug \in SeqToSet(commonDrugs) :
     \/ includes(toLowerCase(m.name), toLowerCase(drug))
     \/ includes(toLowerCase(m.genericName), toLowerCase(drug))
     \/ (m.brandName # None /\ includes(toLowerCase(m.brandName[1]), toLowerCase(drug)))

\* confidence thresholds of checkCoverage, in hundredths
RejectBelow == 30
FastPathAbove == 90

\* 'if (normalizedResult.confidence < 0.3)'
\* (variant: the gate compares with <= 0.1, so 0.2 passes)
ConfidenceGateRejects_lenient(nr) == nr.confidence <= 10
ConfidenceGateRejects(nr) == nr.confidence < RejectBelow

\* 'if (isCommonDrug && normalizedResult.confidence > 0.9)'
\* (variant: the comparison is >=)
FastPathEligible_inclusive(nr) == isCommonDrug(nr.medication) /\ nr.confidence >= FastPathAbove
\* (variant: the threshold is 0.95)
FastPathEligible_strict(nr) == isCommonDrug(nr.medication) /\ nr.confidence > 95
\* (variant: the threshold is 0.6)
FastPathEligible_aboveSixTenths(nr) == isCommonDrug(nr.medication) /\ nr.confidence > 60
FastPathEligible(nr) == isCommonDrug(nr.medication) /\ nr.confidence > FastPathAbove

BoolString(b) == IF b THEN "true" ELSE "false"

\* 'Convert local result to toolhouse format' (the same on both paths)
LocalToToolhouse(local, nr) ==
  LET e == local.entry[1] IN
  Coverage("true", e.tier, e.copay, BoolString(e.prior_auth),
           IF e.prior_auth THEN Some(<<"Prior authorization required by plan">>) ELSE None,
           AlternativesList([i \in 1..Len(e.alternatives) |->
              Alternative(e.alternatives[i], 1, 10, "false",
                          <<"Lower-cost alternative to", nr.medication.name>>)]),
           <<"Found in local formulary as", local.matchedName[1]>>,
           "local_formulary_fast")

\* 'Both failed - return not found'
NotFoundParallel(nr) ==
  Coverage("false", NULL, NULL, "false", None, NoAlternatives,
           <<"not found in available formularies. Please contact your insurance provider",
             nr.medication.name>>,
           "not_found_parallel")

\* (variant: the data_source test is missing)
RagWins_noMarkerTest(rag) ==
  /\ rag.is_covered # "null"
  /\ rag.tier # NULL

\* the first branch of the arbitration, for a fulfilled remote value that
\* is an object
RagWins(rag) ==
  /\ rag.is_covered # "null"
  /\ rag.tier # NULL
  /\ rag.data_source # "toolhouse_timeout"

LocalWins(lp) == lp.status = "fulfilled" /\ lp.value[1].isFound

\* cost thresholds of the two web research steps
FastCopayThreshold == 50
ArbitrationCopayThreshold == 100

\* 'Step 3: Decide on web research' of the fast path
FastResearch(tr) ==
  IF tr.copay > FastCopayThreshold \/ TruthyBool(tr.prior_auth_required)
  THEN "findAlternatives" ELSE "none"

\* (variant: the prior authorization test comes first)
ArbitrationResearch_paFirst(tr) ==
  IF TruthyBool(tr.prior_auth_required) THEN "researchPAStrategies"
  ELSE IF ~TruthyBool(tr.is_covered) \/ (TruthyNum(tr.copay) /\ tr.copay > ArbitrationCopayThreshold)
  THEN "findAlternatives"
  ELSE "findPriceComparison"

\* (variant: the prior authorization branch is missing)
ArbitrationResearch_noPA(tr) ==
  IF ~TruthyBool(tr.is_covered) \/ (TruthyNum(tr.copay) /\ tr.copay > ArbitrationCopayThreshold)
  THEN "findAlternatives"
  ELSE "findPriceComparison"

\* 'Step 3: Optional Web Research' of the arbitration path
ArbitrationResearch(tr) ==
  IF ~TruthyBool(tr.is_covered) \/ (TruthyNum(tr.copay) /\ tr.copay > ArbitrationCopayThreshold)
  THEN "findAlternatives"
  ELSE IF TruthyBool(tr.prior_auth_required) THEN "researchPAStrategies"
  ELSE "findPriceComparison"

\* suggested_alternatives.map is not a function
AssemblyThrows(tr) == tr.suggested_alternatives.kind = "string"

\* the response the confidence gate returns
RejectedResponse(req) ==
  [outcome |-> "rejected",
   medication |-> Medication(req.medicationName, Str.S_Unknown, None),
   isCovered |-> "false", tier |-> NULL, estimatedCopay |-> None,
   priorAuth |-> [required |-> "false", reason |-> None, estimatedApprovalTime |-> None],
   alternativeMedications |-> None, webResearch |-> None,
   disclaimer |-> [text |-> "is not recognized as a valid medication",
                   elapsed |-> FALSE, confidence |-> None, explanation |-> None]]

\* (variant: the catch block leaves priorAuth out of the fallback)
FallbackResponse_noPriorAuth(req) ==
  [outcome |-> "error",
   medication |-> Medication(req.medicationName, req.medicationName, None),
   isCovered |-> "false", tier |-> NULL, estimatedCopay |-> None,
   priorAuth |-> [required |-> "undefined", reason |-> None, estimatedApprovalTime |-> None],
   alternativeMedications |-> None, webResearch |-> None,
   disclaimer |-> [text |-> "Error checking coverage",
                   elapsed |-> TRUE, confidence |-> None, explanation |-> None]]

\* the response of the outer catch block
FallbackResponse(req) ==
  [outcome |-> "error",
   medication |-> Medication(req.medicationName, req.medicationName, None),
   isCovered |-> "false", tier |-> NULL, estimatedCopay |-> None,
   priorAuth |-> [required |-> "false", reason |-> None, estimatedApprovalTime |-> None],
   alternativeMedications |-> None, webResearch |-> None,
   disclaimer |-> [text |-> "Error checking coverage",
                   elapsed |-> TRUE, confidence |-> None, explanation |-> None]]

\* (variant: the length test is missing)
AlternativeMedications_noLengthTest(sa) ==
  IF sa.kind = "array"
  THEN Some([i \in 1..Len(sa.items) |->
               [name |-> sa.items[i].name, tier |-> sa.items[i].tier,
                copay |-> sa.items[i].copay, prior_auth |-> sa.items[i].prior_auth,
                reason |-> sa.items[i].reason]])
  ELSE None
\* 'Build suggested alternatives if available': suggested_alternatives.map
\* over a non-empty array, else undefined
AlternativeMedications(sa) ==
  IF sa.kind = "array" /\ Len(sa.items) > 0
  THEN Some([i \in 1..Len(sa.items) |->
               [name |-> sa.items[i].name, tier |-> sa.items[i].tier,
                copay |-> sa.items[i].copay, prior_auth |-> sa.items[i].prior_auth,
                reason |-> sa.items[i].reason]])
  ELSE None

\* (variant: the explanation is left out of the disclaimer)
AssembledDisclaimer_noExplanation(path, nr, tr) ==
  [text |-> IF path = "fast" THEN "Fast local lookup completed"
            ELSE "AI-powered coverage check completed",
   elapsed |-> TRUE,
   confidence |-> Some(nr.confidence),
   explanation |-> None]
\* the disclaimer template of the two assemblies: the lead, 'in ${ms}ms',
\* 'normalized with ${Math.round(confidence * 100)}% confidence' and the
\* winner's explanation.  elapsed tells whether the elapsed time is stated.
AssembledDisclaimer(path, nr, tr) ==
  [text |-> IF path = "fast" THEN "Fast local lookup completed"
            ELSE "AI-powered coverage check completed",
   elapsed |-> TRUE,
   confidence |-> Some(nr.confidence),
   explanation |-> Some(tr.explanation)]

\* (variant: the approval time is set whatever prior_auth_required is)
EstimatedApprovalTime_always(pa) == Some("1-3 business days")
\* prior_auth_required ? '1-3 business days' : undefined
EstimatedApprovalTime(pa) == IF TruthyBool(pa) THEN Some("1-3 business days") ELSE None

\* 'Build response immediately' and 'Step 4: Build comprehensive response'
\* (variant: the fast path leaves the alternatives out)
BuildResponse_fastWithoutAlternatives(path, nr, tr, web) ==
  [outcome |-> path,
   medication |-> nr.medication,
   isCovered |-> tr.is_covered,
   tier |-> tr.tier,
   estimatedCopay |-> IF TruthyNum(tr.copay)
                      THEN Some([min |-> tr.copay, max |-> tr.copay, currency |-> "USD"])
                      ELSE None,
   priorAuth |-> [required |-> tr.prior_auth_required,
                  reason |-> tr.prior_auth_details,
                  estimatedApprovalTime |-> EstimatedApprovalTime(tr.prior_auth_required)],
   alternativeMedications |-> IF path = "fast" THEN None
                              ELSE AlternativeMedications(tr.suggested_alternatives),
   webResearch |-> web,
   disclaimer |-> AssembledDisclaimer(path, nr, tr)]
BuildResponse(path, nr, tr, web) ==
  [outcome |-> path,
   medication |-> nr.medication,
   isCovered |-> tr.is_covered,
   tier |-> tr.tier,
   estimatedCopay |-> IF TruthyNum(tr.copay)
                      THEN Some([min |-> tr.copay, max |-> tr.copay, currency |-> "USD"])
                      ELSE None,
   priorAuth |-> [required |-> tr.prior_auth_required,
                  reason |-> tr.prior_auth_details,
                  estimatedApprovalTime |-> EstimatedApprovalTime(tr.prior_auth_required)],
   alternativeMedications |-> AlternativeMedications(tr.suggested_alternatives),
   webResearch |-> web,
   disclaimer |-> AssembledDisclaimer(path, nr, tr)]

(***************************************************************************)
(* The request pipeline, one action per stretch between two awaits         *)
(***************************************************************************)
Init ==
  /\ formularies \in {LoadedFormularies, EmptyFormularies}
  /\ pc = "idle"
  /\ request = NoRequest
  /\ completion = None
  /\ normalizedResult = None
  /\ localPromise = NoPromise
  /\ ragPromise = NoPromise
  /\ toolhouseResponse = None
  /\ dataSource = "unknown"
  /\ webResearch = None
  /\ calls = NoCalls
  /\ response = None
  /\ ServiceInit

\* return r to the caller
Return(r) == response' = Some(r) /\ pc' = "done"

\* checkCoverage is called: the normalizer is invoked and awaited
CheckCoverage ==
  /\ pc = "idle"
  /\ \E m \in MedicationNames, p \in PlanIds, w \in BOOLEAN :
        request' = [medicationName |-> m, planId |-> p, includeWebResearch |-> w]
  /\ pc' = "normalizing"
  /\ calls' = [calls EXCEPT !.normalizer = @ + 1]
  /\ UNCHANGED <<serviceVars, formularies, completion, normalizedResult, localPromise, ragPromise,
                 toolhouseResponse, dataSource, webResearch, response>>

\* the normalizer resolves: the confidence gate, the start of the local
\* lookup and the choice between the fast path and the parallel lookup
NormalizerReturns ==
  /\ pc = "normalizing"
  /\ \E reply \in BackendReplies :
       LET nr == normalizeMedication(request.medicationName, reply) IN
       /\ completion' = Some(reply)
       /\ normalizedResult' = Some(nr)
       /\ IF ConfidenceGateRejects(nr)
          THEN /\ Return(RejectedResponse(request))
               /\ UNCHANGED <<localPromise, ragPromise, calls>>
          ELSE /\ localPromise' = Pending
               /\ response' = response
               /\ IF FastPathEligible(nr)
                  THEN /\ pc' = "fast_await_local"
                       /\ calls' = [calls EXCEPT !.local = @ + 1]
                       /\ UNCHANGED ragPromise
                  ELSE /\ pc' = "await_both"
                       /\ ragPromise' = Pending
                       /\ calls' = [calls EXCEPT !.local = @ + 1, !.remote = @ + 1]
  /\ UNCHANGED <<serviceVars, formularies, request, toolhouseResponse, dataSource, webResearch>>

\* what checkLocalFormulary settles to
LocalSettlement ==
  LET r == FormularyCheckCoverage(formularies, request.planId,
                                  normalizedResult[1].medication.name)
  IN IF r.threw THEN Rejected ELSE Fulfilled(r)

\* fast path: 'const localResult = await localPromise' and what follows it
FastPathLocalSettles ==
  /\ pc = "fast_await_local"
  /\ localPromise.status = "pending"
  /\ localPromise' = LocalSettlement
  /\ LET nr == normalizedResult[1]
         lp == LocalSettlement
     IN
     IF lp.status = "rejected"
     THEN /\ Return(FallbackResponse(request))
          /\ UNCHANGED <<ragPromise, toolhouseResponse, dataSource, calls>>
     ELSE IF lp.value[1].isFound
     THEN LET tr == LocalToToolhouse(lp.value[1], nr) IN
          /\ toolhouseResponse' = Some(tr)
          /\ dataSource' = "local_fast"
          /\ UNCHANGED ragPromise
          /\ IF request.includeWebResearch /\ FastResearch(tr) # "none"
             THEN /\ pc' = "fast_research"
                  /\ calls' = [calls EXCEPT !.augmenter = Append(@, FastResearch(tr))]
                  /\ UNCHANGED response
             ELSE /\ Return(BuildResponse("fast", nr, tr, None))
                  /\ UNCHANGED calls
     ELSE /\ ragPromise' = Pending
          /\ calls' = [calls EXCEPT !.remote = @ + 1]
          /\ pc' = "await_both"
          /\ UNCHANGED <<toolhouseResponse, dataSource, response>>
  /\ formularies' = IndexAfterLookup(formularies, request.planId)
  /\ UNCHANGED <<serviceVars, request, completion, normalizedResult, webResearch>>

\* parallel lookup: the local promise settles
LocalSettles ==
  /\ pc = "await_both"
  /\ localPromise.status = "pending"
  /\ localPromise' = LocalSettlement
  /\ formularies' = IndexAfterLookup(formularies, request.planId)
  /\ UNCHANGED <<serviceVars, pc, request, completion, normalizedResult, ragPromise,
                 toolhouseResponse, dataSource, webResearch, calls, response>>

\* parallel lookup: the resolver's promise settles
RemoteSettles ==
  /\ pc = "await_both"
  /\ ragPromise.status = "pending"
  /\ \E o \in RemoteOutcomes : ragPromise' = Fulfilled(ToolhouseCheckCoverage(o))
  /\ UNCHANGED <<serviceVars, formularies, pc, request, completion, normalizedResult, localPromise,
                 toolhouseResponse, dataSource, webResearch, calls, response>>

\* the winner of 'Prioritize successful results' and its dataSource
Arbitrated(rag, lp, nr) ==
  IF rag.status = "fulfilled" /\ RagWins(rag.value[1])
  THEN <<rag.value[1], "rag_primary">>
  ELSE IF LocalWins(lp)
  THEN <<LocalToToolhouse(lp.value[1], nr), "local_primary">>
  ELSE <<NotFoundParallel(nr), "not_found">>

\* reading ragResult.value.is_covered of the value null is a TypeError
ArbitrationThrows(rag) == rag.status = "fulfilled" /\ rag.value[1].json = "null"

\* Promise.allSettled resumes: arbitration, then web research or assembly
Arbitrate ==
  /\ pc = "await_both"
  /\ localPromise.status \in {"fulfilled", "rejected"}
  /\ ragPromise.status \in {"fulfilled", "rejected"}
  /\ LET nr == normalizedResult[1] IN
     IF ArbitrationThrows(ragPromise)
     THEN /\ Return(FallbackResponse(request))
          /\ UNCHANGED <<toolhouseResponse, dataSource, calls>>
     ELSE LET win == Arbitrated(ragPromise, localPromise, nr)
              tr == win[1]
          IN
          /\ toolhouseResponse' = Some(tr)
          /\ dataSource' = win[2]
          /\ IF request.includeWebResearch
             THEN /\ pc' = "research"
                  /\ calls' = [calls EXCEPT !.augmenter = Append(@, ArbitrationResearch(tr))]
                  /\ UNCHANGED response
             ELSE /\ UNCHANGED calls
                  /\ IF AssemblyThrows(tr)
                     THEN Return(FallbackResponse(request))
                     ELSE Return(BuildResponse("arbitrated", nr, tr, None))
  /\ UNCHANGED <<serviceVars, formularies, request, completion, normalizedResult, localPromise,
                 ragPromise, webResearch>>

\* the awaited web research operation resolves; the response is assembled
AugmenterReturns ==
  /\ pc \in {"fast_research", "research"}
  /\ \E w \in WebResearchResults(calls.augmenter[Len(calls.augmenter)]) :
       /\ webResearch' = Some(w)
       /\ IF AssemblyThrows(toolhouseResponse[1])
          THEN Return(FallbackResponse(request))
          ELSE Return(BuildResponse(IF pc = "fast_research" THEN "fast" ELSE "arbitrated",
                                    normalizedResult[1], toolhouseResponse[1], Some(w)))
  /\ UNCHANGED <<serviceVars, formularies, request, completion, normalizedResult, localPromise,
                 ragPromise, toolhouseResponse, dataSource, calls>>

\* the awaited web research operation rejects: the inner catch logs it
\* ('Continue without web research') and the response is assembled with
\* webResearch still undefined
\* (variant: the operation is called a second time after it rejected)
AugmenterThrows_retries ==
  /\ pc \in {"fast_research", "research"}
  /\ Len(calls.augmenter) < 2
  /\ calls' = [calls EXCEPT !.augmenter = Append(@, calls.augmenter[1])]
  /\ UNCHANGED <<serviceVars, formularies, pc, request, completion, normalizedResult,
                 localPromise, ragPromise, toolhouseResponse, dataSource, webResearch,
                 response>>
AugmenterThrows ==
  /\ pc \in {"fast_research", "research"}
  /\ webResearch' = None
  /\ IF AssemblyThrows(toolhouseResponse[1])
     THEN Return(FallbackResponse(request))
     ELSE Return(BuildResponse(IF pc = "fast_research" THEN "fast" ELSE "arbitrated",
                               normalizedResult[1], toolhouseResponse[1], None))
  /\ UNCHANGED <<serviceVars, formularies, request, completion, normalizedResult, localPromise,
                 ragPromise, toolhouseResponse, dataSource, calls>>

\* the call has returned; the service is ready for the next request
NextRequest ==
  /\ pc = "done"
  /\ pc' = "idle"
  /\ request' = NoRequest
  /\ completion' = None
  /\ normalizedResult' = None
  /\ localPromise' = NoPromise
  /\ ragPromise' = NoPromise
  /\ toolhouseResponse' = None
  /\ dataSource' = "unknown"
  /\ webResearch' = None
  /\ calls' = NoCalls
  /\ response' = None
  /\ UNCHANGED <<serviceVars, formularies>>

Next ==
  \/ CheckCoverage
  \/ NormalizerReturns
  \/ FastPathLocalSettles
  \/ LocalSettles
  \/ RemoteSettles
  \/ Arbitrate
  \/ AugmenterReturns
  \/ AugmenterThrows
  \/ NextRequest

Spec == Init /\ [][Next]_vars

TypeOK ==
  /\ pc \in {"idle", "normalizing", "normalized", "looking_up", "looked_up",
             "fast_await_local", "await_both", "fast_research", "research", "done",
             "suggested", "fetching", "reading", "resolved",
             "awaiting_service", "answered"}
  /\ (pc = "done") = (response # None)

(***************************************************************************)
(* GroqService.normalizeMedication called on its own                       *)
(***************************************************************************)

\* raw user inputs
UserInputs == {Str.s_lisinopril, Str.S_Lisinopril, Str.S_Metformin_ER, Str.S_Zorvex, Str.s_xk29qzrandom}

\* normalizeMedication(userInput) is called: the backend request is sent
NormalizeCalled ==
  /\ pc = "idle"
  /\ \E u \in UserInputs :
        request' = [medicationName |-> u, planId |-> "", includeWebResearch |-> FALSE]
  /\ pc' = "normalizing"
  /\ calls' = [calls EXCEPT !.normalizer = @ + 1]
  /\ UNCHANGED <<serviceVars, formularies, completion, normalizedResult, localPromise, ragPromise,
                 toolhouseResponse, dataSource, webResearch, response>>

\* the backend call settles
BackendAnswers ==
  /\ pc = "normalizing"
  /\ completion = None
  /\ \E reply \in BackendReplies : completion' = Some(reply)
  /\ UNCHANGED <<serviceVars, formularies, pc, request, normalizedResult, localPromise, ragPromise,
                 toolhouseResponse, dataSource, webResearch, calls, response>>

\* the rest of normalizeMedication runs and the call resolves
NormalizeResolves ==
  /\ pc = "normalizing"
  /\ completion # None
  /\ normalizedResult' = Some(normalizeMedication(request.medicationName, completion[1]))
  /\ pc' = "normalized"
  /\ UNCHANGED <<serviceVars, formularies, request, completion, localPromise, ragPromise,
                 toolhouseResponse, dataSource, webResearch, calls, response>>

NormalizerNext ==
  \/ NormalizeCalled
  \/ BackendAnswers
  \/ NormalizeResolves

NormalizerSpec == Init /\ [][NormalizerNext]_vars

(***************************************************************************)
(* FormularyService.checkCoverage called on its own                        *)
(***************************************************************************)

\* a formulary file whose entries share names across fields: Zestril is a
\* brand name of the first entry and the generic name of the second, and
\* lisinopril is the generic name of the first entry and the key of the third
SharedNamesPlan ==
  [plan_id |-> "shared-names", carrier |-> "Test",
   formulary |-> <<
     [key |-> Str.s_prinivil,
      entry |-> Entry(Str.s_lisinopril, <<Str.S_Prinivil, Str.S_Zestril>>, 2, 30, FALSE, FALSE, FALSE,
                      <<Str.s_enalapril>>)],
     [key |-> Str.s_enalapril,
      entry |-> Entry(Str.s_zestril, <<>>, 1, 10, FALSE, FALSE, FALSE, <<>>)],
     [key |-> Str.s_lisinopril,
      entry |-> Entry(Str.s_lisinopril, <<>>, 1, 5, FALSE, FALSE, FALSE, <<>>)] >>]

\* the names looked up
LookupNames ==
  {Str.s_lisinopril, Str.S_Lisinopril, Str.s_lisin, Str.S_Zestril, Str.s_prinivil, Str.s_tylenol, Str.S_Humira,
   Str.s_humira, Str.s_adalimumab, Str.s_advil, Str.s_infliximab, Str.s_constructor, Str.s_xk29qzrandom,
   Str.S_Tylenol, Str.S_Prinivil, Str.S_Remicade, Str.S_Synthroid, Str.S_Levoxyl, Str.s_levothyroxine,
   Str.s_acetaminophen, Str.s_rivaroxaban, Str.s_empty}

LookupPlanIds == PlanIds \cup {"shared-names"}

\* the service after its constructor: the repository's two files and the
\* shared-names file loaded, or nothing loaded
LookupInit ==
  /\ formularies \in {Append(LoadedFormularies, SharedNamesPlan), EmptyFormularies}
  /\ pc = "idle"
  /\ request = NoRequest
  /\ completion = None
  /\ normalizedResult = None
  /\ localPromise = NoPromise
  /\ ragPromise = NoPromise
  /\ toolhouseResponse = None
  /\ dataSource = "unknown"
  /\ webResearch = None
  /\ calls = NoCalls
  /\ response = None
  /\ ServiceInit

\* checkCoverage(planId, medicationName) is called
LookupCalled ==
  /\ pc = "idle"
  /\ \E p \in LookupPlanIds, n \in LookupNames :
        request' = [medicationName |-> n, planId |-> p, includeWebResearch |-> FALSE]
  /\ pc' = "looking_up"
  /\ localPromise' = Pending
  /\ calls' = [calls EXCEPT !.local = @ + 1]
  /\ UNCHANGED <<serviceVars, formularies, completion, normalizedResult, ragPromise,
                 toolhouseResponse, dataSource, webResearch, response>>

\* the call returns its result, or a TypeError leaves it
LookupReturns ==
  /\ pc = "looking_up"
  /\ LET r == FormularyCheckCoverage(formularies, request.planId, request.medicationName)
     IN localPromise' = IF r.threw THEN Rejected ELSE Fulfilled(r)
  /\ pc' = "looked_up"
  /\ formularies' = IndexAfterLookup(formularies, request.planId)
  /\ UNCHANGED <<serviceVars, request, completion, normalizedResult, ragPromise,
                 toolhouseResponse, dataSource, webResearch, calls, response>>

\* the entries a caller may hold: those of the files, of any plan
KnownEntries ==
  LET fs == Append(LoadedFormularies, SharedNamesPlan)
  IN UNION {{fs[i].formulary[j].entry : j \in 1..Len(fs[i].formulary)} : i \in 1..Len(fs)}

\* getSuggestedAlternatives(planId, medicationName, currentEntry) is called
\* and returns, or a TypeError of a lookup leaves it
SuggestAlternatives ==
  /\ pc = "idle"
  /\ \E p \in LookupPlanIds, currentEntry \in {None} \cup {Some(e) : e \in KnownEntries} :
        /\ suggested' = Some([planId |-> p, currentEntry |-> currentEntry,
                              result |-> getSuggestedAlternatives(formularies, p,
                                                                  currentEntry)])
        /\ formularies' = IndexAfterLookup(formularies, p)
  /\ pc' = "suggested"
  /\ UNCHANGED <<request, completion, normalizedResult, localPromise,
                 ragPromise, toolhouseResponse, dataSource, webResearch, calls, response,
                 clock, timeoutId, responseText, outcome>>
  /\ UNCHANGED <<augmenterVars, routeVars>>

LookupNext ==
  \/ LookupCalled
  \/ LookupReturns
  \/ SuggestAlternatives

LookupSpec == LookupInit /\ [][LookupNext]_vars

\* requests to the orchestrator in sequence, and direct calls of the
\* formulary service, on one loaded index
IndexNext ==
  \/ Next
  \/ LookupNext

IndexSpec == LookupInit /\ [][IndexNext]_vars

(***************************************************************************)
(* ToolhouseService.checkCoverage called on its own, one action per        *)
(* event of the call: the fetch settling, the body settling, the timer     *)
(***************************************************************************)
MaxClock == 7

\* the call returns what outcome o comes to (the catch block included)
Resolve(o) ==
  /\ outcome' = Some(o)
  /\ ragPromise' = Fulfilled(ToolhouseCheckCoverage(o))
  /\ pc' = "resolved"

\* lines 44-71: the timer is set and fetch is awaited
ResolverCalled ==
  /\ pc = "idle"
  /\ pc' = "fetching"
  /\ clock' = 0
  /\ timeoutId' = "armed"
  /\ ragPromise' = Pending
  /\ calls' = [calls EXCEPT !.remote = @ + 1]
  /\ UNCHANGED <<formularies, request, completion, normalizedResult, localPromise,
                 toolhouseResponse, dataSource, webResearch, response, suggested,
                 responseText, outcome>>
  /\ UNCHANGED <<augmenterVars, routeVars>>

\* a second passes; an armed timer that is due fires before time moves on
Tick ==
  /\ pc \in {"fetching", "reading"} \/ timeoutId = "armed"
  /\ clock < MaxClock
  /\ ~(timeoutId = "armed" /\ clock >= timeout)
  /\ clock' = clock + 1
  /\ UNCHANGED <<formularies, pc, request, completion, normalizedResult, localPromise,
                 ragPromise, toolhouseResponse, dataSource, webResearch, calls, response,
                 suggested, timeoutId, responseText, outcome>>
  /\ UNCHANGED <<augmenterVars, routeVars>>

\* lines 51-54: the timer fires and aborts the controller; a fetch still
\* pending rejects with AbortError
TimerFires ==
  /\ timeoutId = "armed"
  /\ clock >= timeout
  /\ timeoutId' = "fired"
  /\ IF pc = "fetching"
     THEN Resolve([kind |-> "abort", v |-> JsonNull])
     ELSE UNCHANGED <<pc, ragPromise, outcome>>
  /\ UNCHANGED <<formularies, request, completion, normalizedResult, localPromise,
                 toolhouseResponse, dataSource, webResearch, calls, response, suggested,
                 clock, responseText>>
  /\ UNCHANGED <<augmenterVars, routeVars>>

\* lines 73-83: fetch resolves with the status line and headers; the timer
\* is cleared, then response.ok is tested and the body awaited
HeadersArrive ==
  /\ pc = "fetching"
  /\ timeoutId' = "cleared"
  /\ \E ok \in BOOLEAN :
        IF ok
        THEN pc' = "reading" /\ UNCHANGED <<ragPromise, outcome>>
        ELSE Resolve([kind |-> "http_error", v |-> JsonNull])
  /\ UNCHANGED <<formularies, request, completion, normalizedResult, localPromise,
                 toolhouseResponse, dataSource, webResearch, calls, response, suggested,
                 clock, responseText>>
  /\ UNCHANGED <<augmenterVars, routeVars>>

\* fetch rejects for a transport error; clearTimeout is not reached
FetchFails ==
  /\ pc = "fetching"
  /\ Resolve([kind |-> "network_error", v |-> JsonNull])
  /\ UNCHANGED <<formularies, request, completion, normalizedResult, localPromise,
                 toolhouseResponse, dataSource, webResearch, calls, response, suggested,
                 clock, timeoutId, responseText>>
  /\ UNCHANGED <<augmenterVars, routeVars>>

\* lines 83-118: response.text() resolves and the text is parsed
BodyArrives ==
  /\ pc = "reading"
  /\ \E text \in ReplyTexts :
        /\ responseText' = Some(text)
        /\ Resolve(ParseReply(text))
  /\ UNCHANGED <<formularies, request, completion, normalizedResult, localPromise,
                 toolhouseResponse, dataSource, webResearch, calls, response, suggested,
                 clock, timeoutId>>
  /\ UNCHANGED <<augmenterVars, routeVars>>

\* response.text() rejects: the connection broke while the body was read
BodyFails ==
  /\ pc = "reading"
  /\ Resolve([kind |-> "network_error", v |-> JsonNull])
  /\ UNCHANGED <<formularies, request, completion, normalizedResult, localPromise,
                 toolhouseResponse, dataSource, webResearch, calls, response, suggested,
                 clock, timeoutId, responseText>>
  /\ UNCHANGED <<augmenterVars, routeVars>>

ResolverNext ==
  \/ ResolverCalled
  \/ Tick
  \/ TimerFires
  \/ HeadersArrive
  \/ FetchFails
  \/ BodyArrives
  \/ BodyFails

ResolverSpec == Init /\ [][ResolverNext]_vars

(***************************************************************************)
(* The operations of WebResearchService called on their own by two         *)
(* callers, one action per stretch between two awaits                      *)
(***************************************************************************)
MaxNow == 3

DrugNames == {Str.s_lisinopril, Str.s_humira}

\* getCachedResult(key) at time t: the cache after the read and the result
\* (variant: the age of the entry is not tested)
getCachedResult_neverExpires(c, key, t) ==
  LET hits == {e \in c : e.key = key}
  IN IF hits = {} THEN [cache |-> c, result |-> None]
     ELSE [cache |-> c, result |-> Some((CHOOSE e \in hits : TRUE).result)]
getCachedResult(c, key, t) ==
  LET hits == {e \in c : e.key = key}
      cached == CHOOSE e \in hits : TRUE
  IN IF hits = {} THEN [cache |-> c, result |-> None]
     ELSE IF t - cached.timestamp > cacheTimeout
     THEN [cache |-> c \ {cached}, result |-> None]
     ELSE [cache |-> c, result |-> Some(cached.result)]

\* cacheResult(key, result) at time t
\* (variant: an entry already under the key is kept)
cacheResult_firstWins(c, key, result, t) ==
  IF \E e \in c : e.key = key THEN c
  ELSE c \cup {[key |-> key, result |-> result, timestamp |-> t]}
cacheResult(c, key, result, t) ==
  {e \in c : e.key # key} \cup {[key |-> key, result |-> result, timestamp |-> t]}

\* an operation is called: the cache is read; a hit is returned, a miss
\* goes to the backend
OperationCalled(t) ==
  /\ tasks[t].state = "idle"
  /\ \E op \in Operations, drugName \in DrugNames :
        LET read == getCachedResult(cache, CacheKey(op, drugName), now)
            called == [NotCalled EXCEPT !.op = op, !.drugName = drugName,
                                        !.started = now, !.startSeq = events + 1]
        IN /\ cache' = read.cache
           /\ tasks' = [tasks EXCEPT ![t] =
                IF read.result # None
                THEN [called EXCEPT !.state = "returned", !.result = read.result,
                                    !.finished = now, !.finishSeq = events + 1]
                ELSE [called EXCEPT !.state = "awaiting", !.invoked = TRUE]]
  /\ events' = events + 1
  /\ UNCHANGED <<formularies, pc, request, completion, normalizedResult, localPromise,
                 ragPromise, toolhouseResponse, dataSource, webResearch, calls, response,
                 suggested, clock, timeoutId, responseText, outcome, now, routeVars>>

\* the backend call settles: the result is built, cached unless the outer
\* catch was taken, and returned
OperationReturns(t) ==
  /\ tasks[t].state = "awaiting"
  /\ \E reply \in AugmenterReplies :
        LET r == Research(tasks[t].op, tasks[t].drugName, reply, now)
        IN /\ cache' = IF r.cached
                       THEN cacheResult(cache, CacheKey(tasks[t].op, tasks[t].drugName),
                                        r.result, now)
                       ELSE cache
           /\ tasks' = [tasks EXCEPT ![t] =
                [@ EXCEPT !.state = "returned", !.met = reply.kind, !.cached = r.cached,
                          !.result = Some(r.result), !.finished = now,
                          !.finishSeq = events + 1]]
  /\ events' = events + 1
  /\ UNCHANGED <<formularies, pc, request, completion, normalizedResult, localPromise,
                 ragPromise, toolhouseResponse, dataSource, webResearch, calls, response,
                 suggested, clock, timeoutId, responseText, outcome, now, routeVars>>

\* an hour passes
HourPasses ==
  /\ now < MaxNow
  /\ now' = now + 1
  /\ UNCHANGED <<formularies, pc, request, completion, normalizedResult, localPromise,
                 ragPromise, toolhouseResponse, dataSource, webResearch, calls, response,
                 suggested, clock, timeoutId, responseText, outcome, cache, tasks, events,
                 routeVars>>

AugmenterNext ==
  \/ \E t \in Callers : OperationCalled(t)
  \/ \E t \in Callers : OperationReturns(t)
  \/ HourPasses

AugmenterSpec == Init /\ [][AugmenterNext]_vars

(***************************************************************************)
(* The POST /coverage/check handler of routes/coverage.ts                  *)
(***************************************************************************)
Bodies ==
  LET Names == {JsValue("undefined", <<>>), JsValue("string", <<>>),
                JsValue("string", Str.s_lisinopril), JsValue("number", <<"7">>)}
      ZipCodes == {JsValue("undefined", <<>>), JsValue("string", <<>>),
                   JsValue("string", <<"1","2","3","4","5">>),
                   JsValue("string", <<"1","2","3","4">>),
                   JsValue("string", <<"1","2","3","4","a">>),
                   JsValue("string", <<"1","2","3","4","5","6">>),
                   JsValue("number", <<"1","2","3","4","5">>)}
      Objects == {[present |-> FALSE, field |-> JsValue("undefined", <<>>)]}
                 \cup {[present |-> TRUE, field |-> n] : n \in Names}
  IN { Body(m, p, z, f) : m \in Objects, p \in Objects, z \in ZipCodes, f \in ZipCodes }

Answer(status, success, details) ==
  [status |-> status, success |-> success, details |-> details]

\* the handler up to its await: the log line reads req.body.medication.name
\* before the validation, inside the try
coverageCheckHandler ==
  /\ pc = "idle"
  /\ res = None
  /\ \E b \in Bodies :
        /\ body' = b
        /\ IF ~b.medication.present
           THEN /\ res' = Some(Answer(500, FALSE, <<>>))
                /\ pc' = "answered"
                /\ UNCHANGED serviceCalls
           ELSE IF validateCoverageRequest(b) # <<>>
           THEN /\ res' = Some(Answer(400, FALSE, validateCoverageRequest(b)))
                /\ pc' = "answered"
                /\ UNCHANGED serviceCalls
           ELSE /\ pc' = "awaiting_service"
                /\ serviceCalls' = serviceCalls + 1
                /\ UNCHANGED res
  /\ UNCHANGED <<formularies, request, completion, normalizedResult, localPromise,
                 ragPromise, toolhouseResponse, dataSource, webResearch, calls, response,
                 suggested, clock, timeoutId, responseText, outcome, augmenterVars>>

\* coverageService.checkCoverage resolves
ServiceReturns ==
  /\ pc = "awaiting_service"
  /\ res' = Some(Answer(200, TRUE, <<>>))
  /\ pc' = "answered"
  /\ UNCHANGED <<formularies, request, completion, normalizedResult, localPromise,
                 ragPromise, toolhouseResponse, dataSource, webResearch, calls, response,
                 suggested, clock, timeoutId, responseText, outcome, augmenterVars,
                 body, serviceCalls>>

\* coverageService.checkCoverage rejects, or building the answer throws
ServiceThrows ==
  /\ pc = "awaiting_service"
  /\ res' = Some(Answer(500, FALSE, <<>>))
  /\ pc' = "answered"
  /\ UNCHANGED <<formularies, request, completion, normalizedResult, localPromise,
                 ragPromise, toolhouseResponse, dataSource, webResearch, calls, response,
                 suggested, clock, timeoutId, responseText, outcome, augmenterVars,
                 body, serviceCalls>>

RouteNext ==
  \/ coverageCheckHandler
  \/ ServiceReturns
  \/ ServiceThrows

RouteSpec == Init /\ [][RouteNext]_vars

(***************************************************************************)
(* One checkCoverage request under the scheduling the code provides        *)
(***************************************************************************)
\* the resolver's fetch resolves with the status line and headers while the
\* orchestrator awaits Promise.allSettled: clearTimeout(timeoutId) cancels
\* the abort timer (part_008 line 74) before the body is awaited
RemoteHeadersArrive ==
  /\ pc = "await_both"
  /\ ragPromise.status = "pending"
  /\ timeoutId = "none"
  /\ timeoutId' = "cleared"
  /\ UNCHANGED <<formularies, pc, request, completion, normalizedResult, localPromise,
                 ragPromise, toolhouseResponse, dataSource, webResearch, calls, response,
                 suggested, clock, responseText, outcome, augmenterVars, routeVars>>

LiveNext ==
  \/ CheckCoverage
  \/ NormalizerReturns
  \/ FastPathLocalSettles
  \/ LocalSettles
  \/ RemoteHeadersArrive
  \/ RemoteSettles
  \/ Arbitrate
  \/ AugmenterReturns
  \/ AugmenterThrows

\* Every awaited call settles and every resumed continuation runs: weak
\* fairness of the step that ends each wait.  Each condition names the step by
\* the wait it ends (NormalizerReturns is the only step leaving "normalizing",
\* FastPathLocalSettles the only one leaving "fast_await_local", LocalSettles
\* and RemoteSettles the only ones settling a promise, Arbitrate the only one
\* leaving "await_both", AugmenterReturns and AugmenterThrows the only ones
\* leaving the research wait), and each of those steps is enabled throughout
\* its wait.  The resolver's fetch is only sure to settle while its abort timer
\* has not been cleared.
LiveFairness ==
  /\ WF_pc(pc = "normalizing" /\ pc' \in {"done", "fast_await_local", "await_both"})
  /\ WF_pc(pc = "fast_await_local" /\ pc' \in {"done", "fast_research", "await_both"})
  /\ WF_localPromise(/\ pc = "await_both" /\ localPromise.status = "pending"
                     /\ (localPromise' = Rejected \/ localPromise'.status # "pending"))
  /\ WF_ragPromise(/\ pc = "await_both" /\ ragPromise.status = "pending" /\ timeoutId # "cleared"
                   /\ (ragPromise' = Rejected \/ ragPromise'.status # "pending"))
  /\ WF_pc(/\ pc = "await_both" /\ localPromise.status # "pending" /\ ragPromise.status # "pending"
           /\ pc' \in {"done", "research"})
  /\ WF_pc(pc \in {"fast_research", "research"} /\ pc' = "done")
LiveSpec == Init /\ [][LiveNext]_vars /\ LiveFairness

(***************************************************************************)
(* Properties                                                              *)
(***************************************************************************)
Done == pc = "done" /\ response # None

\* C1: a request whose normalization confidence is below 0.3 is answered at
\* once with isCovered=false, tier=null, estimatedCopay=null and
\* priorAuth.required=false, and neither the remote resolver nor any web
\* research operation is called during it, whatever includeWebResearch is.
C1_RejectedShortCircuits ==
  (normalizedResult # None /\ normalizedResult[1].confidence < 30) =>
     /\ Done
     /\ response[1].isCovered = "false"
     /\ response[1].tier = NULL
     /\ response[1].estimatedCopay = None
     /\ response[1].priorAuth.required = "false"
     /\ calls.remote = 0
     /\ ragPromise.status = "none"
     /\ calls.augmenter = <<>>
     /\ webResearch = None

C1_Witness ==
  /\ Done
  /\ normalizedResult # None
  /\ normalizedResult[1].confidence = 20
  /\ request.includeWebResearch
  /\ response[1].outcome = "rejected"

\* C2: on the arbitration path, once both lookups have settled, the winner
\* is the remote result if and only if it fulfilled with is_covered and
\* tier both non-null and data_source not the timeout marker; otherwise the
\* local entry if the local lookup found one; otherwise a synthesized
\* not-found result (is_covered=false, tier=null) naming the drug.
C2_ArbitrationPrecedence ==
  (/\ pc \in {"research", "done"}
   /\ ragPromise.status = "fulfilled"
   /\ localPromise.status \in {"fulfilled", "rejected"}) =>
     LET rag == ragPromise.value[1]
         remoteTrusted == /\ rag.json = "object"
                          /\ rag.is_covered # "null"
                          /\ rag.tier # NULL
                          /\ rag.data_source # "toolhouse_timeout"
         localFound == localPromise.status = "fulfilled" /\ localPromise.value[1].isFound
     IN /\ toolhouseResponse # None
        /\ IF remoteTrusted THEN toolhouseResponse[1] = rag
           ELSE IF localFound
           THEN /\ toolhouseResponse[1].data_source = "local_formulary_fast"
                /\ toolhouseResponse[1].is_covered = "true"
                /\ toolhouseResponse[1].tier = localPromise.value[1].entry[1].tier
                /\ toolhouseResponse[1].copay = localPromise.value[1].entry[1].copay
           ELSE /\ toolhouseResponse[1].data_source = "not_found_parallel"
                /\ toolhouseResponse[1].is_covered = "false"
                /\ toolhouseResponse[1].tier = NULL
                /\ toolhouseResponse[1].explanation[2] = normalizedResult[1].medication.name

\* C3: whenever the remote resolver's result carries the timeout/error
\* marker and the local lookup found an entry, the response is the local
\* entry's coverage: isCovered=true, the entry's tier, priorAuth.required
\* equal to the entry's prior_auth.
C3_LocalBeatsRemoteTimeout ==
  (/\ Done
   /\ ragPromise.status = "fulfilled"
   /\ ragPromise.value[1].data_source = "toolhouse_timeout"
   /\ localPromise.status = "fulfilled"
   /\ localPromise.value[1].isFound) =>
     LET e == localPromise.value[1].entry[1] IN
     /\ response[1].isCovered = "true"
     /\ response[1].tier = e.tier
     /\ response[1].priorAuth.required = (IF e.prior_auth THEN "true" ELSE "false")
     /\ response[1].outcome = "arbitrated"

C3_Witness ==
  /\ Done
  /\ ragPromise.status = "fulfilled"
  /\ ragPromise.value[1] = ToolhouseTimeout
  /\ localPromise.status = "fulfilled"
  /\ localPromise.value[1].isFound
  /\ localPromise.value[1].matchedName = Some(Str.s_humira)
  /\ response[1].tier = 4
  /\ response[1].priorAuth.required = "true"
  /\ response[1].priorAuth.estimatedApprovalTime = Some("1-3 business days")

C5_IndependentSettlement ==
  (Done /\ normalizedResult[1].confidence >= 30) =>
     LET localThrew == localPromise.status = "rejected"
         remoteFailed == /\ ragPromise.status = "fulfilled"
                         /\ \/ ragPromise.value[1].json # "object"
                            \/ ragPromise.value[1].data_source = "toolhouse_timeout"
         remoteTrusted == /\ ragPromise.status = "fulfilled"
                          /\ ragPromise.value[1].json = "object"
                          /\ ragPromise.value[1].is_covered # "null"
                          /\ ragPromise.value[1].tier # NULL
                          /\ ragPromise.value[1].data_source # "toolhouse_timeout"
         localFound == localPromise.status = "fulfilled" /\ localPromise.value[1].isFound
     IN (localThrew # remoteFailed) =>
          /\ response[1].outcome # "error"
          /\ (remoteFailed /\ localFound) =>
                /\ response[1].isCovered = "true"
                /\ response[1].tier = localPromise.value[1].entry[1].tier
          /\ (localThrew /\ remoteTrusted) =>
                /\ response[1].isCovered = ragPromise.value[1].is_covered
                /\ response[1].tier = ragPromise.value[1].tier

\* C6: if the normalized name, generic name or brand name contains a member
\* of the allow-list, the confidence is above 0.9 and the local lookup finds
\* an entry, the request completes on the fast path: the remote resolver is
\* never invoked and the response is built from the local entry.
C6_FastPathSkipsRemote ==
  (/\ normalizedResult # None
   /\ normalizedResult[1].confidence > 90
   /\ isCommonDrug(normalizedResult[1].medication)
   /\ localPromise.status = "fulfilled"
   /\ localPromise.value[1].isFound) =>
     LET e == localPromise.value[1].entry[1] IN
     /\ calls.remote = 0
     /\ ragPromise.status = "none"
     /\ pc \in {"fast_research", "done"}
     /\ Done =>
          /\ response[1].outcome = "fast"
          /\ response[1].isCovered = "true"
          /\ response[1].tier = e.tier
          /\ response[1].priorAuth.required = (IF e.prior_auth THEN "true" ELSE "false")

C6_Witness ==
  /\ Done
  /\ response[1].outcome = "fast"
  /\ request.includeWebResearch
  /\ normalizedResult[1].medication.brandName = Some(Str.S_Humira)
  /\ response[1].tier = 4
  /\ calls.remote = 0

\* C7 (as stated): a result with confidence >= 0.9, exactly 0.9 included,
\* whose medication is in the allow-list is eligible for the fast path:
\* with a local hit the remote resolver is not called.
C7_InclusiveEligibility ==
  (/\ Done
   /\ normalizedResult[1].confidence >= 90
   /\ isCommonDrug(normalizedResult[1].medication)
   /\ localPromise.status = "fulfilled"
   /\ localPromise.value[1].isFound) =>
     calls.remote = 0

\* C7 (amended): with an allow-listed medication and a local hit, the
\* remote resolver is not called if and only if the confidence is strictly
\* above 0.9; at exactly 0.9 the remote resolver is called.
C7_StrictThreshold ==
  (/\ normalizedResult # None
   /\ normalizedResult[1].confidence >= 30
   /\ isCommonDrug(normalizedResult[1].medication)
   /\ localPromise.status = "fulfilled"
   /\ localPromise.value[1].isFound) =>
     /\ (calls.remote = 0) = (normalizedResult[1].confidence > 90)
     /\ normalizedResult[1].confidence = 90 => calls.remote = 1

C7_Witness ==
  /\ Done
  /\ normalizedResult[1].confidence = 90
  /\ isCommonDrug(normalizedResult[1].medication)
  /\ localPromise.status = "fulfilled"
  /\ localPromise.value[1].isFound
  /\ calls.remote = 1
  /\ response[1].outcome = "arbitrated"

\* C8: if a fast-path-eligible request's local lookup misses, the remote
\* resolver is invoked exactly once, the local lookup is not run a second
\* time, and the outcome is the remote result if it is trusted, otherwise
\* the not-found response.
C8_FastPathMissContinues ==
  (/\ Done
   /\ normalizedResult[1].confidence > 90
   /\ isCommonDrug(normalizedResult[1].medication)
   /\ localPromise.status = "fulfilled"
   /\ ~localPromise.value[1].isFound) =>
     /\ calls.remote = 1
     /\ calls.local = 1
     /\ ragPromise.status = "fulfilled"
     /\ LET rag == ragPromise.value[1]
            trusted == /\ rag.json = "object"
                       /\ rag.is_covered # "null"
                       /\ rag.tier # NULL
                       /\ rag.data_source # "toolhouse_timeout"
        IN /\ response[1].outcome = "arbitrated"
           /\ IF trusted
              THEN /\ response[1].isCovered = rag.is_covered
                   /\ response[1].tier = rag.tier
              ELSE /\ response[1].isCovered = "false"
                   /\ response[1].tier = NULL
                   /\ toolhouseResponse[1].data_source = "not_found_parallel"

\* C9 (as stated): with includeWebResearch, once a winner is chosen exactly
\* one augmenter operation is invoked: findAlternatives if not covered or
\* the copay exceeds the path's threshold (50 fast, 100 arbitration), else
\* researchPAStrategies if prior authorization is required, else
\* findPriceComparison; without includeWebResearch none is invoked.
C9_ExactlyOneOperation ==
  toolhouseResponse # None =>
     LET tr == toolhouseResponse[1]
         threshold == IF ragPromise.status = "none" THEN 50 ELSE 100
     IN IF request.includeWebResearch
        THEN calls.augmenter =
               << IF tr.is_covered # "true" \/ tr.copay > threshold THEN "findAlternatives"
                  ELSE IF tr.prior_auth_required = "true" THEN "researchPAStrategies"
                  ELSE "findPriceComparison" >>
        ELSE calls.augmenter = <<>>

\* C9 (amended): without includeWebResearch no operation is invoked.  With
\* it, the arbitration path invokes exactly one: findAlternatives if the
\* winner is not covered or its copay exceeds 100, else
\* researchPAStrategies if prior authorization is required, else
\* findPriceComparison.  The fast path invokes findAlternatives if the copay
\* exceeds 50 or prior authorization is required, and otherwise nothing.
C9_ResearchSelection ==
  /\ ~request.includeWebResearch => calls.augmenter = <<>>
  /\ toolhouseResponse = None => calls.augmenter = <<>>
  /\ (toolhouseResponse # None /\ request.includeWebResearch) =>
       LET tr == toolhouseResponse[1] IN
       IF ragPromise.status = "none"
       THEN calls.augmenter =
              (IF tr.copay > 50 \/ tr.prior_auth_required = "true"
               THEN <<"findAlternatives">> ELSE <<>>)
       ELSE calls.augmenter =
              << IF tr.is_covered # "true" \/ tr.copay > 100 THEN "findAlternatives"
                 ELSE IF tr.prior_auth_required = "true" THEN "researchPAStrategies"
                 ELSE "findPriceComparison" >>

C9_Witness ==
  /\ Done
  /\ request.includeWebResearch
  /\ response[1].outcome = "fast"
  /\ calls.augmenter = <<>>
  /\ response[1].webResearch = None

\* C10 (as stated): with includeWebResearch, whenever the winning result
\* has prior_auth_required=true the augmentation step invokes
\* researchPAStrategies and not findPriceComparison.
C10_AlwaysPAStrategies ==
  (/\ request.includeWebResearch
   /\ toolhouseResponse # None
   /\ toolhouseResponse[1].prior_auth_required = "true") =>
     calls.augmenter = <<"researchPAStrategies">>

\* C10 (amended): with includeWebResearch, whenever the winning result has
\* prior_auth_required=true the augmentation step invokes one operation,
\* never findPriceComparison: researchPAStrategies when the winner was
\* arbitrated, is covered and its copay does not exceed 100, and
\* findAlternatives otherwise (fast path, not covered, or copay above 100).
C10_PriorAuthResearch ==
  (/\ request.includeWebResearch
   /\ toolhouseResponse # None
   /\ toolhouseResponse[1].prior_auth_required = "true") =>
     LET tr == toolhouseResponse[1] IN
     /\ Len(calls.augmenter) = 1
     /\ calls.augmenter[1] # "findPriceComparison"
     /\ (calls.augmenter[1] = "researchPAStrategies") =
          (ragPromise.status # "none" /\ tr.is_covered = "true" /\ ~(tr.copay > 100))
     /\ (calls.augmenter[1] = "findAlternatives") =
          (ragPromise.status = "none" \/ tr.is_covered # "true" \/ tr.copay > 100)

C10_Witness ==
  /\ Done
  /\ request.includeWebResearch
  /\ toolhouseResponse # None
  /\ toolhouseResponse[1].prior_auth_required = "true"
  /\ toolhouseResponse[1].data_source = "local_formulary_fast"
  /\ response[1].outcome = "arbitrated"
  /\ calls.augmenter = <<"researchPAStrategies">>
  /\ response[1].webResearch # None

C12_ApprovalTimeIffRequired ==
  response # None =>
     LET pa == response[1].priorAuth IN
     /\ (pa.estimatedApprovalTime = Some("1-3 business days")) = (pa.required = "true")
     /\ pa.required # "true" => pa.estimatedApprovalTime = None

C12_Witness ==
  /\ Done
  /\ response[1].outcome = "arbitrated"
  /\ dataSource = "rag_primary"
  /\ response[1].priorAuth.required = "true"
  /\ response[1].priorAuth.estimatedApprovalTime = Some("1-3 business days")

\* C13 (as stated): every response, on any path, has a non-empty
\* disclaimer that states the elapsed processing time; assembled responses
\* also state the normalization confidence and the winner's explanation.
C13_DisclaimerAlwaysStatesElapsed ==
  response # None =>
     LET r == response[1] IN
     /\ r.disclaimer.text # ""
     /\ r.disclaimer.elapsed
     /\ r.outcome \in {"fast", "arbitrated"} =>
          /\ r.disclaimer.confidence # None
          /\ r.disclaimer.explanation # None

\* C13 (amended): every response has a non-empty disclaimer.  The fast
\* path, arbitration and error fallback disclaimers state the elapsed
\* processing time and open with the path that answered; the rejected
\* disclaimer only says that the input is not recognized.  Assembled
\* responses also state the normalization confidence as a percentage and
\* the winning result's explanation; the other two state neither.
C13_Disclaimer ==
  response # None =>
     LET r == response[1]
         d == r.disclaimer
     IN /\ d.text # ""
        /\ d.elapsed = (r.outcome # "rejected")
        /\ d.text = (CASE r.outcome = "rejected" -> "is not recognized as a valid medication"
                       [] r.outcome = "fast" -> "Fast local lookup completed"
                       [] r.outcome = "arbitrated" -> "AI-powered coverage check completed"
                       [] r.outcome = "error" -> "Error checking coverage")
        /\ r.outcome \in {"fast", "arbitrated"} =>
             /\ d.confidence = Some(normalizedResult[1].confidence)
             /\ d.explanation = Some(toolhouseResponse[1].explanation)
        /\ r.outcome \in {"rejected", "error"} =>
             /\ d.confidence = None
             /\ d.explanation = None

C13_Witness ==
  /\ Done
  /\ response[1].outcome = "arbitrated"
  /\ dataSource = "local_primary"
  /\ response[1].disclaimer.elapsed
  /\ response[1].disclaimer.confidence = Some(50)
  /\ response[1].disclaimer.explanation # None

\* C14: the response's alternativeMedications is present if and only if
\* the winning source supplied a non-empty suggested-alternatives list, and
\* then has one element per suggested alternative in the same order (for a
\* local winner, the entry's alternatives); it is absent on the rejected,
\* not-found and error fallback responses.
C14_AlternativesIffSupplied ==
  response # None =>
     LET r == response[1]
         supplied == /\ toolhouseResponse # None
                     /\ toolhouseResponse[1].suggested_alternatives.kind = "array"
                     /\ Len(toolhouseResponse[1].suggested_alternatives.items) > 0
     IN /\ (r.alternativeMedications # None) = supplied
        /\ supplied =>
             LET items == toolhouseResponse[1].suggested_alternatives.items
                 alts == r.alternativeMedications[1]
             IN /\ Len(alts) = Len(items)
                /\ \A i \in 1..Len(items) :
                      /\ alts[i].name = items[i].name
                      /\ alts[i].tier = items[i].tier
                      /\ alts[i].copay = items[i].copay
                /\ dataSource \in {"local_fast", "local_primary"} =>
                      LET e == localPromise.value[1].entry[1] IN
                      /\ Len(alts) = Len(e.alternatives)
                      /\ \A i \in 1..Len(alts) : alts[i].name = e.alternatives[i]
        /\ r.outcome \in {"rejected", "error"} => r.alternativeMedications = None
        /\ dataSource = "not_found" => r.alternativeMedications = None

C14_Witness ==
  /\ Done
  /\ dataSource = "local_primary"
  /\ response[1].alternativeMedications # None
  /\ Len(response[1].alternativeMedications[1]) = 3
  /\ response[1].alternativeMedications[1][3].name = Str.s_losartan

\* C15: normalizeMedication never throws to its caller: whatever the
\* backend did (transport error, empty content, unparseable text, JSON
\* without a name, valid JSON), the call resolves to a result carrying a
\* medication and a confidence.
C15_NormalizerNeverThrows ==
  /\ pc = "normalized" =>
       /\ normalizedResult # None
       /\ normalizedResult[1].via \in {"parsed", "invalid", "fallback"}
       /\ normalizedResult[1].medication.name # Str.s_empty
       /\ normalizedResult[1].medication.genericName # Str.s_empty
       /\ normalizedResult[1].confidence \in 0..100
  /\ normalizedResult # None => normalizedResult[1].via # "threw"

C15_Witness ==
  /\ pc = "normalized"
  /\ completion[1].kind = "json_null"
  /\ normalizedResult[1].via = "fallback"
  /\ normalizedResult[1].medication.name = Str.S_Zorvex

C17_InvalidSentinel ==
  (/\ pc = "normalized"
   /\ completion[1].kind \in {"json", "partial"}
   /\ \/ completion[1].data.name = Some(Str.S_INVALID_MEDICATION)
      \/ completion[1].data.confidence \in 0..19) =>
     /\ normalizedResult[1].confidence = 10
     /\ normalizedResult[1].medication.name = request.medicationName
     /\ normalizedResult[1].medication.genericName = request.medicationName
     /\ normalizedResult[1].medication.brandName = None

C17_Witness ==
  /\ pc = "normalized"
  /\ completion[1].kind = "json"
  /\ completion[1].data.name = Some(Str.S_Adalimumab)
  /\ completion[1].data.confidence = 10
  /\ request.medicationName = Str.S_Zorvex
  /\ normalizedResult[1].confidence = 10
  /\ normalizedResult[1].medication.name = Str.S_Zorvex

C20_FiveStagesInOrder ==
  (/\ pc = "looked_up"
   /\ localPromise.status = "fulfilled"
   /\ PlansFor(formularies, request.planId) # {}) =>
     LET f == formularies[CHOOSE i \in PlansFor(formularies, request.planId) : TRUE].formulary
         n == trim(toLowerCase(request.medicationName))
         r == localPromise.value[1]
         exact == {i \in 1..Len(f) : toLowerCase(f[i].key) = n}
         generic == {i \in 1..Len(f) : toLowerCase(f[i].entry.generic_name) = n}
         brand == {i \in 1..Len(f) :
                     \E b \in SeqToSet(f[i].entry.brand_names) : toLowerCase(b) = n}
         substring == {i \in 1..Len(f) : PartialMatch(n, f[i])}
         hitIn(S) == r.isFound /\ \E i \in S : r.matchedName = Some(f[i].key)
         mapped == FormularyCheckCoverage(formularies, request.planId, MappedName(n))
     IN IF exact # {} THEN hitIn(exact)
        ELSE IF generic # {} THEN hitIn(generic)
        ELSE IF brand # {} THEN hitIn(brand)
        ELSE IF IsMapped(n) /\ mapped.isFound THEN r = mapped
        ELSE IF substring # {} THEN hitIn(substring)
        ELSE ~r.isFound

\* C20 (amended): the lookup applies its stages in order and the first hit
\* wins: the exact key; then one pass over the entries in file order that
\* takes the first entry whose generic name equals the query or whose
\* brand names contain it; then the alias map, whose mapped name is looked
\* up by the same stages and whose result, found or not, is returned (a
\* query that names a property inherited by the map object makes this
\* step throw); then, only for a query with no alias, the first entry in
\* file order that matches by substring.
C20_LookupStages ==
  (pc = "looked_up" /\ PlansFor(formularies, request.planId) # {}) =>
     LET f == formularies[CHOOSE i \in PlansFor(formularies, request.planId) : TRUE].formulary
         n == trim(toLowerCase(request.medicationName))
         exact == {i \in 1..Len(f) : toLowerCase(f[i].key) = n}
         byName == {i \in 1..Len(f) :
                      \/ toLowerCase(f[i].entry.generic_name) = n
                      \/ \E b \in SeqToSet(f[i].entry.brand_names) : toLowerCase(b) = n}
         substring == {i \in 1..Len(f) : PartialMatch(n, f[i])}
         first(S) == CHOOSE i \in S : \A j \in S : i <= j
         returns(i) == /\ localPromise.status = "fulfilled"
                       /\ localPromise.value[1].isFound
                       /\ localPromise.value[1].matchedName = Some(f[i].key)
                       /\ localPromise.value[1].entry = Some(f[i].entry)
     IN IF exact # {} THEN returns(first(exact))
        ELSE IF byName # {} THEN returns(first(byName))
        ELSE IF n \in ObjectPrototypeKeys THEN localPromise.status = "rejected"
        ELSE IF IsMapped(n)
        THEN localPromise =
               Fulfilled(FormularyCheckCoverage(formularies, request.planId, MappedName(n)))
        ELSE IF substring # {} THEN returns(first(substring))
        ELSE localPromise.status = "fulfilled" /\ ~localPromise.value[1].isFound

C20_Witness ==
  /\ pc = "looked_up"
  /\ request.planId = "shared-names"
  /\ request.medicationName = Str.S_Zestril
  /\ localPromise.status = "fulfilled"
  /\ localPromise.value[1].matchedName = Some(Str.s_prinivil)

\* C21 (as stated): for every plan and every entry of that plan listed
\* under a brand name, looking up the brand name resolves to the same entry
\* as looking up that entry's generic name.
C21_AliasEquivalence ==
  (pc = "looked_up" /\ PlansFor(formularies, request.planId) # {}) =>
     LET f == formularies[CHOOSE i \in PlansFor(formularies, request.planId) : TRUE].formulary
     IN \A i \in 1..Len(f) :
          request.medicationName \in SeqToSet(f[i].entry.brand_names) =>
            LET byGeneric == FormularyCheckCoverage(formularies, request.planId,
                                                    f[i].entry.generic_name)
            IN /\ localPromise.status = "fulfilled"
               /\ localPromise.value[1].isFound
               /\ byGeneric.isFound
               /\ localPromise.value[1].matchedName = byGeneric.matchedName

\* C21 (amended): for every plan and every entry of that plan that has a
\* non-empty generic name and is listed under a brand name, where neither
\* name has leading or trailing whitespace and neither is, ignoring case,
\* the key, the generic name or a brand name of another entry of the plan,
\* looking up the brand name and looking up the generic name both resolve
\* to that entry.
C21_AliasEquivalenceUniqueNames ==
  (pc = "looked_up" /\ PlansFor(formularies, request.planId) # {}) =>
     LET f == formularies[CHOOSE i \in PlansFor(formularies, request.planId) : TRUE].formulary
         b == request.medicationName
         EntryNames(j) ==
           {toLowerCase(f[j].key), toLowerCase(f[j].entry.generic_name)} \cup
           {toLowerCase(x) : x \in SeqToSet(f[j].entry.brand_names)}
         NameUniqueTo(i, n) ==
           \A j \in 1..Len(f) : j # i => toLowerCase(n) \notin EntryNames(j)
     IN \A i \in 1..Len(f) :
          (/\ b \in SeqToSet(f[i].entry.brand_names)
           /\ f[i].entry.generic_name # Str.s_empty
           /\ trim(b) = b
           /\ trim(f[i].entry.generic_name) = f[i].entry.generic_name
           /\ NameUniqueTo(i, b)
           /\ NameUniqueTo(i, f[i].entry.generic_name)) =>
            /\ localPromise = Fulfilled(Found(f[i]))
            /\ FormularyCheckCoverage(formularies, request.planId,
                                      f[i].entry.generic_name) = Found(f[i])

C21_Witness ==
  /\ pc = "looked_up"
  /\ request.planId = "aetna-choice-pos"
  /\ request.medicationName = Str.S_Levoxyl
  /\ localPromise.status = "fulfilled"
  /\ localPromise.value[1].matchedName = Some(Str.s_levothyroxine)

\* C22: the lookup returns found=false exactly when none of the five stages
\* (exact key, generic name, brand name, alias map, substring) matches the
\* query in the given plan; it misses for an unknown plan and, when nothing
\* was loaded at startup, for every query, and it does so without throwing.
C22_MissIffNoStageMatches ==
  pc = "looked_up" =>
     LET known == PlansFor(formularies, request.planId) # {}
         f == formularies[CHOOSE i \in PlansFor(formularies, request.planId) : TRUE].formulary
         n == trim(toLowerCase(request.medicationName))
         exact == \E i \in 1..Len(f) : toLowerCase(f[i].key) = n
         generic == \E i \in 1..Len(f) : toLowerCase(f[i].entry.generic_name) = n
         brand == \E i \in 1..Len(f) :
                     \E b \in SeqToSet(f[i].entry.brand_names) : toLowerCase(b) = n
         alias == IsMapped(n)
                    /\ FormularyCheckCoverage(formularies, request.planId, MappedName(n)).isFound
         substring == \E i \in 1..Len(f) : PartialMatch(n, f[i])
         someStage == known /\ (exact \/ generic \/ brand \/ alias \/ substring)
     IN /\ localPromise.status = "fulfilled"
        /\ localPromise.value[1].isFound <=> someStage

\* C23: getSuggestedAlternatives returns the entry's explicit alternatives
\* that resolve through lookup in the same plan; only if none resolves
\* does it return entries of the same plan with a strictly lower tier and
\* no prior authorization, at most 3 of them; it never returns an entry
\* of another plan.
C23_SuggestedAlternatives ==
  (/\ pc = "suggested"
   /\ suggested[1].currentEntry # None
   /\ PlansFor(formularies, suggested[1].planId) # {}) =>
     LET planId == suggested[1].planId
         currentEntry == suggested[1].currentEntry[1]
         returned == suggested[1].result.alternatives
         f == formularies[CHOOSE i \in PlansFor(formularies, planId) : TRUE].formulary
         ofPlan == {f[i].entry : i \in 1..Len(f)}
         names == currentEntry.alternatives
         lookup(a) == FormularyCheckCoverage(formularies, planId, a)
         resolving == {i \in 1..Len(names) : lookup(names[i]).isFound}
         lower == {i \in 1..Len(f) :
                     f[i].entry.tier < currentEntry.tier /\ ~f[i].entry.prior_auth}
     IN /\ ~suggested[1].result.threw
        /\ SeqToSet(returned) \subseteq ofPlan
        /\ resolving # {} =>
              /\ Len(returned) = Cardinality(resolving)
              /\ SeqToSet(returned) = {lookup(names[i]).entry[1] : i \in resolving}
        /\ resolving = {} =>
              /\ SeqToSet(returned) \subseteq {f[i].entry : i \in lower}
              /\ Len(returned) <= 3
              /\ Len(returned) = IF Cardinality(lower) < 3 THEN Cardinality(lower) ELSE 3

C23_Witness ==
  /\ pc = "suggested"
  /\ suggested[1].planId = "aetna-choice-pos"
  /\ suggested[1].currentEntry = Some(AetnaChoicePos.formulary[5].entry)
  /\ Len(suggested[1].result.alternatives) = 3

\* C24: the resolver's checkCoverage never throws; on timeout, transport
\* error, non-success HTTP status or unparseable body it returns the
\* synthetic response with is_covered=false, tier=null, copay=null, all
\* boolean flags false and data_source 'toolhouse_timeout'.
C24_ResolverNeverThrows ==
  /\ ragPromise.status # "rejected"
  /\ pc = "resolved" =>
       /\ ragPromise.status = "fulfilled"
       /\ outcome[1].kind \in {"abort", "network_error", "http_error", "plain_text",
                                "bad_json"} =>
            LET r == ragPromise.value[1]
            IN /\ r.json = "object"
               /\ r.is_covered = "false"
               /\ r.tier = NULL
               /\ r.copay = NULL
               /\ r.prior_auth_required = "false"
               /\ r.quantity_limits = "false"
               /\ r.step_therapy_required = "false"
               /\ r.data_source = "toolhouse_timeout"

C24_Witness ==
  /\ pc = "resolved"
  /\ outcome # None
  /\ outcome[1].kind = "http_error"
  /\ ragPromise.status = "fulfilled"
  /\ ragPromise.value[1].data_source = "toolhouse_timeout"

\* C25: a resolver call never stays pending past its hard timeout: if the
\* complete reply (status and body) has not arrived by the deadline the
\* call is cancelled and the sentinel is produced.
C25_NeverPendingPastTimeout ==
  ragPromise.status = "pending" => clock <= timeout

\* C26: the resolver parses the reply by a direct JSON parse, then fence
\* extraction, then brace extraction, and yields the failure sentinel if
\* none succeeds; it never hands over an empty or field-less object (or a
\* value that is no object) as a coverage result.
C26_ParsedOrSentinel ==
  (pc = "resolved" /\ responseText # None) =>
     LET text == responseText[1]
         r == ragPromise.value[1]
         direct == JsonParse(text)
         fenced == JsonParse(FenceMatch(text).group)
         braced == JsonParse(BraceMatch(text).whole)
         parsed == IF ~direct.threw THEN Some(direct.v)
                   ELSE IF FenceMatch(text).matched /\ ~fenced.threw THEN Some(fenced.v)
                   ELSE IF BraceMatch(text).matched /\ ~braced.threw THEN Some(braced.v)
                   ELSE None
     IN /\ parsed = None => r = ToolhouseTimeout
        /\ r # ToolhouseTimeout => parsed = Some(r)
        /\ r.json = "object"
        /\ r # EmptyObject

\* C27 (as stated): a second call of an operation for the same drug within
\* the TTL window after a first call returns a result with identical
\* content and does not invoke the backend; a call after the TTL has
\* expired invokes the backend again.
C27_CacheRoundTrip ==
  \A t1 \in Callers, t2 \in Callers :
     (/\ t1 # t2
      /\ tasks[t1].state = "returned"
      /\ tasks[t2].state # "idle"
      /\ tasks[t2].op = tasks[t1].op
      /\ tasks[t2].drugName = tasks[t1].drugName
      /\ tasks[t2].startSeq > tasks[t1].finishSeq
      /\ \A t3 \in Callers \ {t1, t2} :
            ~(/\ tasks[t3].state = "returned"
              /\ tasks[t3].op = tasks[t1].op
              /\ tasks[t3].drugName = tasks[t1].drugName
              /\ tasks[t3].finishSeq > tasks[t1].finishSeq
              /\ tasks[t3].finishSeq < tasks[t2].startSeq)) =>
       IF tasks[t2].started - tasks[t1].finished <= cacheTimeout
       THEN ~tasks[t2].invoked /\ tasks[t2].result = tasks[t1].result
       ELSE tasks[t2].invoked

\* C27 (amended): a second call of an operation for the same drug within
\* the TTL window after a first call whose backend call produced a reply,
\* so that its result was cached, returns a result with identical content
\* and does not invoke the backend; when the backend call of the first
\* call failed nothing was cached and the second call invokes the backend
\* again, as does a call made after the TTL has expired.
C27_CacheRoundTripOfCachedResult ==
  \A t2 \in Callers :
     tasks[t2].state # "idle" =>
       LET writers == {t1 \in Callers \ {t2} :
                         /\ tasks[t1].state = "returned"
                         /\ tasks[t1].cached
                         /\ tasks[t1].op = tasks[t2].op
                         /\ tasks[t1].drugName = tasks[t2].drugName
                         /\ tasks[t1].finishSeq < tasks[t2].startSeq}
           last == CHOOSE t1 \in writers :
                     \A t3 \in writers : tasks[t3].finishSeq <= tasks[t1].finishSeq
       IN IF writers # {} /\ tasks[t2].started - tasks[last].finished <= cacheTimeout
          THEN /\ ~tasks[t2].invoked
               /\ tasks[t2].state = "returned"
               /\ tasks[t2].result = tasks[last].result
          ELSE tasks[t2].invoked

C27_Witness ==
  /\ tasks["first"].state = "returned"
  /\ tasks["first"].cached
  /\ tasks["second"].state = "returned"
  /\ tasks["second"].op = tasks["first"].op
  /\ tasks["second"].drugName = tasks["first"].drugName
  /\ tasks["second"].started = tasks["first"].finished + cacheTimeout
  /\ ~tasks["second"].invoked
  /\ tasks["second"].result = tasks["first"].result

C29_FailureResultEmpty ==
  \A t \in Callers :
     (/\ tasks[t].state = "returned"
      /\ tasks[t].met \in {"rejects", "no_content", "unparseable", "json_null"}) =>
       LET r == tasks[t].result[1]
       IN /\ r.alternatives = <<>>
          /\ r.priceComparisons = <<>>
          /\ r.paStrategies = <<>>
          /\ r.patientPrograms = <<>>
          /\ r.sources = <<>>
          /\ r.summary \in {"failed", "format was unexpected"}

\* C30: when calls of the same operation for the same drug overlap, each
\* may call the backend and the later write replaces the earlier one; in
\* every state the cache maps a key to one complete result, that of the
\* last call to have written it, for that operation and drug.
C30_LastWriteWins ==
  \A e \in cache :
     /\ \A e2 \in cache : e2.key = e.key => e2 = e
     /\ LET writers == {t \in Callers :
                          /\ tasks[t].state = "returned"
                          /\ tasks[t].cached
                          /\ CacheKey(tasks[t].op, tasks[t].drugName) = e.key}
            last == CHOOSE t \in writers :
                      \A t2 \in writers : tasks[t2].finishSeq <= tasks[t].finishSeq
        IN /\ writers # {}
           /\ e.result = tasks[last].result[1]
           /\ e.timestamp = tasks[last].finished
           /\ e.result.query = <<tasks[last].op, tasks[last].drugName>>

C30_Witness ==
  /\ tasks["first"].state = "returned"
  /\ tasks["second"].state = "returned"
  /\ tasks["first"].cached
  /\ tasks["second"].cached
  /\ tasks["second"].op = tasks["first"].op
  /\ tasks["second"].drugName = tasks["first"].drugName
  /\ tasks["second"].startSeq < tasks["first"].finishSeq
  /\ tasks["first"].finishSeq < tasks["second"].finishSeq
  /\ tasks["first"].result # tasks["second"].result
  /\ \E e \in cache : e.result = tasks["second"].result[1]

\* C31: a body that fails validation (medication.name missing or not a
\* string, insurancePlan.id missing, patientZipCode missing or not five
\* digits, pharmacyZipCode present but not five digits) is always answered
\* with HTTP 400, success=false and the validation details, without calling
\* checkCoverage; HTTP 500 is answered only when the service call threw.
C31_ValidationAnswers400 ==
  (pc = "answered" /\ res # None) =>
    LET missing(v) == v.type = "undefined" \/ v.chars = <<>>
        fails ==
          \/ missing(body.medication.field) \/ body.medication.field.type # "string"
          \/ missing(body.insurancePlan.field)
          \/ missing(body.patientZipCode) \/ ~FiveDigits(body.patientZipCode)
          \/ body.patientZipCode.type # "string"
          \/ ~missing(body.pharmacyZipCode) /\ ~FiveDigits(body.pharmacyZipCode)
    IN /\ fails => /\ res[1].status = 400
                   /\ ~res[1].success
                   /\ res[1].details # <<>>
                   /\ serviceCalls = 0
       /\ res[1].status = 500 => serviceCalls = 1

C33_CoveredIsBooleanWithTier ==
  Done =>
    /\ response[1].isCovered \in {"true", "false"}
    /\ response[1].isCovered = "true" => response[1].tier \notin {NULL, UNDEF}

\* C34: whenever the winning coverage result has a non-null copay c, zero
\* included, the response's estimatedCopay is {min: c, max: c, currency:
\* 'USD'}; estimatedCopay is null only when the winning copay is null.
C34_EstimatedCopay ==
  (Done /\ response[1].outcome \in {"fast", "arbitrated"}) =>
    LET c == toolhouseResponse[1].copay
    IN /\ c >= 0 =>
            response[1].estimatedCopay = Some([min |-> c, max |-> c, currency |-> "USD"])
       /\ response[1].estimatedCopay = None => c \in {NULL, UNDEF}

C36_NoCallRepeated ==
  /\ calls.normalizer <= 1
  /\ calls.local <= 1
  /\ calls.remote <= 1
  /\ Len(calls.augmenter) <= 1
  /\ pc \in {"normalizing", "fast_await_local", "await_both", "fast_research",
              "research", "done"} => calls.normalizer = 1

C36_Witness ==
  /\ Done
  /\ calls.normalizer = 1
  /\ calls.local = 1
  /\ calls.remote = 1
  /\ Len(calls.augmenter) = 1
  /\ webResearch # None

C39_FailuresNotCachedParseFallbackCached ==
  /\ \A e \in cache : e.result.summary # "failed"
  /\ \A t1 \in Callers, t2 \in Callers :
       (/\ t1 # t2
        /\ tasks[t1].state = "returned"
        /\ tasks[t2].state # "idle"
        /\ tasks[t2].op = tasks[t1].op
        /\ tasks[t2].drugName = tasks[t1].drugName
        /\ tasks[t2].startSeq > tasks[t1].finishSeq) =>
         /\ tasks[t1].met = "rejects" => ~tasks[t1].cached /\ tasks[t2].invoked
         /\ tasks[t1].met = "unparseable" =>
              /\ tasks[t1].cached
              /\ tasks[t2].started - tasks[t1].finished <= cacheTimeout =>
                   ~tasks[t2].invoked /\ tasks[t2].result = tasks[t1].result

C39_Witness ==
  /\ tasks["first"].state = "returned"
  /\ tasks["first"].met = "unparseable"
  /\ tasks["first"].op = "findPriceComparison"
  /\ tasks["second"].state = "returned"
  /\ tasks["second"].op = "findPriceComparison"
  /\ tasks["second"].drugName = tasks["first"].drugName
  /\ tasks["second"].startSeq > tasks["first"].finishSeq
  /\ tasks["second"].started = tasks["first"].finished + cacheTimeout
  /\ ~tasks["second"].invoked
  /\ tasks["second"].result = tasks["first"].result

\* C40: every checkCoverage call eventually returns exactly one response,
\* provided the normalizer and the web research backend respond or fail,
\* whatever the resolver's endpoint does; and the request moves through
\* NORMALIZING, then REJECTED or RESOLVING, then fast-path completion or
\* ARBITRATING, then optionally AUGMENTING, then DONE, never back.
C40_ReturnsOnceInOrder ==
  /\ (pc = "normalizing") ~> Done
  /\ [][LET rank(p) == CASE p = "idle" -> 0
                         [] p = "normalizing" -> 1
                         [] p = "fast_await_local" -> 2
                         [] p = "await_both" -> 3
                         [] p \in {"fast_research", "research"} -> 4
                         [] OTHER -> 5
         IN /\ pc' # pc => rank(pc') > rank(pc)
            /\ response # None => response' = response]_vars

=============================================================================
